---- MODULE Spec2Model ----
(***************************************************************************)
(* A model of loads-broker's EC2 instance pool (loadsbroker/aws.py):       *)
(* EC2Pool with its free lists, recovery buckets and region connections,   *)
(* the coroutines recover, request_instances, release_instances and        *)
(* reap_instances cut at their suspension points (every `yield`), the      *)
(* cloud they talk to, and the pure helpers get_ami and                    *)
(* available_instance; the pool's `ready` future; the fan-outs of an       *)
(* EC2Collection over its instances; and a Run with its running container  *)
(* sets (loadsbroker/db.py) driven by the RunManager through               *)
(* _initialize, _run and _shutdown; the helpers ping and retry, the Docker *)
(* extension's calls and the side-car extensions                           *)
(* (loadsbroker/extensions.py); and an EC2Instance's waits and an          *)
(* EC2Collection's start and shutdown.                                     *)
(*                                                                         *)
(* Time is counted in whole seconds; `now` is the reading of               *)
(* datetime.today() and launch_time the parsed launch time of an instance, *)
(* both on the broker's wall clock (the unit tests freeze one clock for    *)
(* both).                                                                  *)
(***************************************************************************)
EXTENDS Integers, Sequences, FiniteSets, TLC

(***************************************************************************)
(* Bounds of the model.                                                    *)
(***************************************************************************)
MaxInst == 3        \* instances the cloud account may hold (its instance limit)
MaxPre == 2         \* instances an earlier broker process left in the cloud
MaxCount == 3       \* largest `count` a caller asks for
MaxCalls == 3       \* pool calls started over the life of a broker
MaxTicks == 1       \* clock ticks
MaxRestarts == 1    \* broker process restarts
MaxTasks == 2       \* coroutine frames alive at once

TickSeconds == 120  \* seconds the clock advances per tick

MaxGroups == 2      \* container sets of a plan
SleepTime == 10     \* RunManager.sleep_time, in seconds
MaxRunSeconds == 100  \* the clock of a run stops here
MaxAttempts == 6    \* attempts a ping or a retry is called with
MaxFan == 3         \* instances of the collection a fan-out runs over

(***************************************************************************)
(* Program constants.                                                      *)
(***************************************************************************)
AWS_REGIONS ==
    { "ap-northeast-1", "ap-southeast-1", "ap-southeast-2", "eu-west-1",
      "sa-east-1", "us-east-1", "us-west-1", "us-west-2" }

\* timedelta(minutes=2), in seconds
TwoMinutes == 2 * 60

\* the instance families that cannot use HVM
ParavirtualPrefixes == { "m1", "m2", "c1", "t1" }

broker_id == "1234"

\* "loads-%s" % self.broker_id
NameTag == "loads-" \o broker_id

ProjectTag == "loads"

\* a tag the instance does not carry: tags.get(...) answers None
NoTag == "<None>"

(***************************************************************************)
(* The inputs the model draws from.                                        *)
(***************************************************************************)
UsedRegions == { "us-west-2", "us-east-1" }

UnknownRegion == "mars-1"

RegionInputs == UsedRegions \cup { UnknownRegion }

PoolTypes == { "t1.micro", "m3.medium" }

Keys == { <<"R1", "C1">>, <<"R2", "C2">> }

VirtTypes == { "paravirtual", "hvm" }

TaskIds == 1 .. MaxTasks

VARIABLES
    now,            \* datetime.today(), in seconds
    cloud,          \* the account's instances: id -> boto Instance attributes
    AWS_AMI_IDS,    \* region -> the virtualization types an AMI is known for
    use_filters,    \* EC2Pool.use_filters
    _instances,     \* EC2Pool._instances: region -> free list (keys as in the dict)
    _recovered,     \* EC2Pool._recovered: (run_id, uuid) -> bucket
    _conns,         \* EC2Pool._conns: the regions with a cached connection
    collections,    \* the EC2Collections handed out and not yet released
    tasks,          \* the coroutine frames of the pool's calls
    ncalls,         \* pool calls started so far
    nrestarts,      \* broker restarts so far
    probe,          \* a direct call of get_ami or available_instance: arguments, result
    ready,          \* EC2Pool.ready, the Future: "pending" or "resolved"
    initialized,    \* the callback add_future attached to initialize(): its outcome
    run,            \* the Run row: state, started_at, completed_at, aborted
    sets,           \* the Run's RunningContainerSet rows, in plan order
    workload,       \* per RunningContainerSet: what its test containers are doing
    rm,             \* the RunManager driving the run: where it is
    fan,            \* one fan-out of an EC2Collection over its instances
    call            \* one call of a helper or an extension: its arguments,
                    \* locals, place and the remote calls it has issued

\* what the pool's calls and the direct calls leave alone
rest == << run, sets, workload, rm, fan, call >>

vars == << now, cloud, AWS_AMI_IDS, use_filters, _instances, _recovered, _conns,
           collections, tasks, ncalls, nrestarts, probe, ready, initialized, rest >>

(***************************************************************************)
(* Sequence helpers.                                                       *)
(***************************************************************************)
Range(s) == { s[k] : k \in DOMAIN s }

Min(a, b) == IF a < b THEN a ELSE b

RECURSIVE SetToSortedSeq(_)
SetToSortedSeq(S) ==
    IF S = {} THEN << >>
    ELSE LET m == CHOOSE x \in S : \A y \in S : x <= y
         IN  << m >> \o SetToSortedSeq(S \ { m })

\* how many times x occurs in s
Occurrences(s, x) == Cardinality({ k \in DOMAIN s : s[k] = x })

(***************************************************************************)
(* get_ami and available_instance.                                         *)
(***************************************************************************)
\* instance_type[:2]
TypePrefix(instance_type) == SubSeq(instance_type, 1, Min(2, Len(instance_type)))

\* the virtualization type get_ami looks up
AmiVariant(instance_type) ==
    IF TypePrefix(instance_type) \in ParavirtualPrefixes THEN "paravirtual" ELSE "hvm"

\* get_ami: the AMI chosen, or the KeyError it raises
get_amiMutFallback(amis, instance_type) ==
    IF AmiVariant(instance_type) \in amis
    THEN [ raised |-> FALSE, variant |-> AmiVariant(instance_type) ]
    ELSE IF amis # {}
         THEN [ raised |-> FALSE, variant |-> CHOOSE v \in amis : TRUE ]
         ELSE [ raised |-> TRUE, variant |-> NoTag ]

get_ami(amis, instance_type) ==
    IF AmiVariant(instance_type) \notin amis
    THEN [ raised |-> TRUE, variant |-> NoTag ]
    ELSE [ raised |-> FALSE, variant |-> AmiVariant(instance_type) ]

available_instanceMutInclusive(state, launch_time, today) ==
    \/ state = "running"
    \/ state = "pending" /\ today - TwoMinutes <= launch_time

available_instance(state, launch_time, today) ==
    IF state = "running" THEN TRUE
    ELSE IF state = "pending"
         THEN LET oldest == today - TwoMinutes
              IN  oldest < launch_time
         ELSE FALSE

\* available_instance of the instance object with this id
Available(i) == available_instance(cloud[i].state, cloud[i].launch_time, now)

(***************************************************************************)
(* Dictionaries of lists: EC2Pool._instances and EC2Pool._recovered.       *)
(***************************************************************************)
EmptyDict == [ k \in {} |-> << >> ]

\* d[k] of a defaultdict(list), read without creating the key
Lookup(d, k) == IF k \in DOMAIN d THEN d[k] ELSE << >>

\* d[k] = v
Store(d, k, v) == [ x \in DOMAIN d \cup { k } |-> IF x = k THEN v ELSE d[x] ]

\* del d[k]
Delete(d, k) == [ x \in DOMAIN d \ { k } |-> d[x] ]

\* every instance held in some list of the dictionary
Held(d) == UNION { Range(d[k]) : k \in DOMAIN d }

(***************************************************************************)
(* The cloud: instances, tags and the calls made to it.                    *)
(***************************************************************************)
Ids == 1 .. MaxInst

NoTags == [ Name |-> NoTag, Project |-> NoTag, RunId |-> NoTag, Uuid |-> NoTag ]

\* the instance conn.run_instances launches: pending, launched now, untagged
NewInstance(inst_type, region) ==
    [ state |-> "pending", instance_type |-> inst_type, region |-> region,
      launch_time |-> now, tags |-> NoTags ]

\* conn.create_tags(ids, settings): settings is a set of <<key, value>>
SetTags(tags, settings) ==
    [ k \in DOMAIN tags |->
        IF \E p \in settings : p[1] = k
        THEN (CHOOSE p \in settings : p[1] = k)[2]
        ELSE tags[k] ]

create_tags(c, ids, settings) ==
    [ i \in DOMAIN c |->
        IF i \in ids THEN [ c[i] EXCEPT !.tags = SetTags(@, settings) ] ELSE c[i] ]

\* conn.terminate_instances(ids)
terminate_instances(c, ids) ==
    [ i \in DOMAIN c |->
        IF i \in ids THEN [ c[i] EXCEPT !.state = "terminated" ] ELSE c[i] ]

\* tags.get(name), as a truth value: None and "" are false
Truthy(v) == v # NoTag /\ v # ""

\* self._tag_filters
MatchesTagFilters(i) ==
    cloud[i].tags.Name = NameTag /\ cloud[i].tags.Project = ProjectTag

\* _recover_region: conn.get_only_instances(filters=...), in id order
Listed(region) ==
    SetToSortedSeq({ i \in DOMAIN cloud :
                        /\ cloud[i].region = region
                        /\ use_filters => MatchesTagFilters(i) })

\* the tags request_instances sets
RunTags(run_id, uuid) ==
    { <<"Name", NameTag>>, <<"Project", ProjectTag>>,
      <<"RunId", run_id>>, <<"Uuid", uuid>> }

\* the tags release_instances sets
ReleaseTagsMutRunIdOnly == { <<"RunId", "">> }

ReleaseTags == { <<"RunId", "">>, <<"Uuid", "">> }

\* one call to the cloud API, as the pool issued it
ApiCall(api, region, ids, n, inst_type, settings) ==
    [ api |-> api, region |-> region, ids |-> ids, min_count |-> n,
      max_count |-> n, instance_type |-> inst_type, tags |-> settings ]

(***************************************************************************)
(* EC2Pool's synchronous helpers.                                          *)
(***************************************************************************)
\* _recover, lines 712-729: where one listed instance goes
RouteMutTagsFirst(i) ==
    IF Truthy(cloud[i].tags.RunId) /\ Truthy(cloud[i].tags.Uuid)
    THEN "recovered"
    ELSE "free"

Route(i) ==
    IF ~ Available(i) THEN "free"
    ELSE IF Truthy(cloud[i].tags.RunId) /\ Truthy(cloud[i].tags.Uuid)
         THEN "recovered"
         ELSE "free"

\* the key of the recovery bucket an instance is put in
InstKey(i) == << cloud[i].tags.RunId, cloud[i].tags.Uuid >>

\* the loop of _recover over the flattened listing
RECURSIVE RecoverLoop(_, _, _)
RecoverLoop(listing, free, recovered_instances) ==
    IF listing = << >>
    THEN [ free |-> free, recovered |-> recovered_instances ]
    ELSE LET i == Head(listing)
         IN  IF Route(i) = "recovered"
             THEN RecoverLoop(Tail(listing), free,
                      Store(recovered_instances, InstKey(i),
                            Append(Lookup(recovered_instances, InstKey(i)), i)))
             ELSE RecoverLoop(Tail(listing),
                      Store(free, cloud[i].region,
                            Append(Lookup(free, cloud[i].region), i)),
                      recovered_instances)

\* instancelist flattened: the regions in AWS_REGIONS order, each in listing order
RECURSIVE FlatListing(_)
FlatListing(regions) ==
    IF regions = << >> THEN << >>
    ELSE Listed(Head(regions)) \o FlatListing(Tail(regions))

AWS_REGIONS_ORDER ==
    << "ap-northeast-1", "ap-southeast-1", "ap-southeast-2", "eu-west-1",
       "sa-east-1", "us-east-1", "us-west-1", "us-west-2" >>

\* _locate_recovered_instances
_locate_recovered_instancesMutKeep(recovered, run_id, uuid) ==
    [ instances |-> Lookup(recovered, << run_id, uuid >>), recovered |-> recovered ]

_locate_recovered_instances(recovered, run_id, uuid) ==
    LET key == << run_id, uuid >>
    IN  IF key \notin DOMAIN recovered
        THEN [ instances |-> << >>, recovered |-> recovered ]
        ELSE [ instances |-> recovered[key], recovered |-> Delete(recovered, key) ]

\* the for loop of _locate_existing_instances, from position k on
RECURSIVE LocateLoop(_, _, _, _, _, _)
LocateLoop(region_instances, k, instances, remaining, count, inst_type) ==
    IF k > Len(region_instances)
    THEN [ instances |-> instances, remaining |-> remaining ]
    ELSE LET inst == region_instances[k]
             match == Available(inst) /\ inst_type = cloud[inst].instance_type
             instances2 == IF match THEN Append(instances, inst) ELSE instances
             remaining2 == IF match THEN remaining ELSE Append(remaining, inst)
         IN  IF Len(instances2) > count
             THEN [ instances |-> instances2, remaining |-> remaining2 ]
             ELSE LocateLoop(region_instances, k + 1, instances2, remaining2,
                             count, inst_type)

\* _locate_existing_instances: the instances taken and the dictionary left
_locate_existing_instancesMutDrop(free, count, inst_type, region) ==
    LET region_instances == Lookup(free, region)
        r == LocateLoop(region_instances, 1, << >>, << >>, count, inst_type)
        removed == Len(r.instances) + Len(r.remaining)
    IN  [ instances |-> r.instances,
          free |-> Store(free, region,
                         SubSeq(region_instances, removed + 1, Len(region_instances))) ]

_locate_existing_instances(free, count, inst_type, region) ==
    LET region_instances == Lookup(free, region)
        r == LocateLoop(region_instances, 1, << >>, << >>, count, inst_type)
        removed == Len(r.instances) + Len(r.remaining)
    IN  [ instances |-> r.instances,
          free |-> Store(free, region,
                         SubSeq(region_instances, removed + 1, Len(region_instances))
                            \o r.remaining) ]

(***************************************************************************)
(* Coroutine frames.  A frame holds the arguments and locals of one call   *)
(* of a pool coroutine, the place it is suspended at (pc), the cloud calls *)
(* it has issued, and the pool's dictionaries as they were when it was     *)
(* called.                                                                 *)
(***************************************************************************)
IdleFrame ==
    [ op |-> "none", pc |-> "idle", run_id |-> "", uuid |-> "", count |-> 0,
      inst_type |-> "", region |-> "", recovered |-> << >>, existing |-> << >>,
      new_instances |-> << >>, instances |-> << >>, all_instances |-> EmptyDict,
      todo |-> {}, calls |-> << >>, error |-> "",
      pre_instances |-> EmptyDict, pre_recovered |-> EmptyDict ]

\* the frame of initialize()/_recover() a new pool starts with
RecoverFrame == [ IdleFrame EXCEPT !.op = "recover", !.pc = "list" ]

Finished(f) == f.pc \in { "idle", "returned", "raised" }

InFlight(t) == ~ Finished(tasks[t])

\* the frame slot a new call takes: the first one that is free
FreeSlot(t) ==
    /\ Finished(tasks[t])
    /\ \A u \in TaskIds : u < t => InFlight(u)

\* the pool is past initialize(): what a caller waits for before its first call
Ready == \A u \in TaskIds : tasks[u].op = "recover" => Finished(tasks[u])

\* initialize() has returned: the pool holds what it recovered
Recovered == \E u \in TaskIds : tasks[u].op = "recover" /\ tasks[u].pc = "returned"

\* no call is in flight: callers that serialize their calls start one only now
Quiescent == \A u \in TaskIds : Finished(tasks[u])

\* the EC2Collection request_instances returns
Collection(f) == [ run_id |-> f.run_id, uuid |-> f.uuid, instances |-> f.instances ]

(***************************************************************************)
(* The state after construction: EC2Pool.__init__ has started initialize() *)
(* and nothing else has run.                                               *)
(***************************************************************************)
\* populate_ami_ids found both AMIs in every region but us-east-1, where the
\* paravirtual one is missing
AmiTable == [ r \in AWS_REGIONS |-> IF r = "us-east-1" THEN { "hvm" } ELSE VirtTypes ]

NewPool ==
    /\ AWS_AMI_IDS = AmiTable
    /\ use_filters \in BOOLEAN
    /\ _instances = EmptyDict
    /\ _recovered = EmptyDict
    /\ _conns = {}
    /\ collections = {}
    /\ tasks = [ t \in TaskIds |-> IF t = 1 THEN RecoverFrame ELSE IdleFrame ]
    /\ ncalls = 0
    /\ nrestarts = 0
    /\ ready = "pending"
    /\ initialized = "pending"

\* the states of a Run (db.py), in the order a run goes through them
INITIALIZING == 0
RUNNING == 1
TERMINATING == 2
COMPLETED == 3

\* a nullable DateTime column that holds no time
NoTime == 0 - 1

RunRowMutRunning(today) ==
    [ state |-> RUNNING, created_at |-> today, started_at |-> NoTime,
      completed_at |-> NoTime, aborted |-> FALSE ]

\* Run(): the columns' defaults; created_at is the reading of utcnow()
RunRow(today) ==
    [ state |-> INITIALIZING, created_at |-> today, started_at |-> NoTime,
      completed_at |-> NoTime, aborted |-> FALSE ]

\* RunningContainerSet() linked to a ContainerSet with its triggering data
RunningContainerSet(run_delay, run_max_time, today) ==
    [ run_delay |-> run_delay, run_max_time |-> run_max_time,
      created_at |-> today, started_at |-> NoTime, completed_at |-> NoTime ]

\* no fan-out is under way
NoFan ==
    [ pc |-> "none", op |-> "", ops |-> << >>, results |-> << >>, value |-> "",
      error |-> 0 ]

\* no helper or extension has been called
NoCall == [ op |-> "", pc |-> "none" ]

\* no Run has been created, no fan-out is under way, no helper is called
NoRun ==
    /\ run = RunRow(NoTime)
    /\ sets = << >>
    /\ workload = << >>
    /\ rm = [ pc |-> "none", fatal |-> FALSE ]
    /\ fan = NoFan
    /\ call = NoCall

NoProbe ==
    [ instance_type |-> "", amis |-> {}, ami |-> [ raised |-> FALSE, variant |-> NoTag ],
      ami_called |-> FALSE, available |-> FALSE, available_called |-> FALSE ]

\* the tags an earlier broker process leaves on an instance: those of a run it
\* was allocated to, those of a released instance, or none (never tagged)
TagsOf(run_id, uuid) ==
    [ Name |-> NameTag, Project |-> ProjectTag, RunId |-> run_id, Uuid |-> uuid ]

PreviousTags ==
    { TagsOf(key[1], key[2]) : key \in Keys } \cup { TagsOf("", ""), NoTags }

\* state and launch time: running, pending for a minute, pending for three
\* minutes, terminated
PreviousStates ==
    { << "running", 0 - 3 * 60 >>, << "pending", 0 - 60 >>,
      << "pending", 0 - 3 * 60 >>, << "terminated", 0 - 3 * 60 >> }

PreviousPlaces ==
    { << "us-west-2", "t1.micro" >>, << "us-west-2", "m3.medium" >>,
      << "us-east-1", "m3.medium" >> }

PreviousInstances ==
    { [ state |-> st[1], instance_type |-> pl[2], region |-> pl[1],
        launch_time |-> st[2], tags |-> tg ] :
        st \in PreviousStates, pl \in PreviousPlaces, tg \in PreviousTags }

PreviousClouds ==
    UNION { [ 1 .. n -> PreviousInstances ] : n \in 0 .. MaxPre }

\* a broker starts on a cloud an earlier broker process left behind
Init ==
    /\ now = 0
    /\ cloud \in PreviousClouds
    /\ NewPool
    /\ probe = NoProbe
    /\ NoRun

\* the first broker ever started: the cloud is empty
InitLife ==
    /\ now = 0
    /\ cloud = << >>
    /\ NewPool
    /\ probe = NoProbe
    /\ NoRun

(***************************************************************************)
(* recover(): lines 701-729.                                               *)
(***************************************************************************)
\* every region's listing has arrived: route the instances
RecoverFinish(t) ==
    /\ tasks[t].op = "recover" /\ tasks[t].pc = "list"
    /\ LET r == RecoverLoop(FlatListing(AWS_REGIONS_ORDER), _instances, EmptyDict)
       IN  /\ _instances' = r.free
           /\ _recovered' = r.recovered
           /\ tasks' = [ tasks EXCEPT ![t] =
                           [ @ EXCEPT !.pc = "returned",
                                      !.instances = FlatListing(AWS_REGIONS_ORDER),
                                      !.pre_instances = _instances,
                                      !.pre_recovered = _recovered ] ]
    /\ _conns' = AWS_REGIONS
    /\ UNCHANGED << ready, initialized, rest, probe, now, cloud, AWS_AMI_IDS, use_filters, collections, ncalls, nrestarts >>

\* connecting to a region or listing it failed
RecoverFail(t) ==
    /\ tasks[t].op = "recover" /\ tasks[t].pc = "list"
    /\ tasks' = [ tasks EXCEPT ![t] = [ @ EXCEPT !.pc = "raised",
                                                !.error = "EC2ResponseError" ] ]
    /\ UNCHANGED << ready, initialized, rest, probe, now, cloud, AWS_AMI_IDS, use_filters, _instances, _recovered,
                    _conns, collections, ncalls, nrestarts >>

(***************************************************************************)
(* request_instances: lines 776-826.                                       *)
(***************************************************************************)
\* lines 812-826: tag the instances, or return at once without filters
RequestTagMutAlways(f) ==
    [ f EXCEPT !.pc = "tag",
               !.calls = Append(@, ApiCall("create_tags", f.region,
                             Range(f.instances), 0, "",
                             RunTags(f.run_id, f.uuid))) ]

RequestTag(f) ==
    IF use_filters
    THEN [ f EXCEPT !.pc = "tag",
                    !.calls = Append(@, ApiCall("create_tags", f.region,
                                  Range(f.instances), 0, "",
                                  RunTags(f.run_id, f.uuid))) ]
    ELSE [ f EXCEPT !.pc = "returned" ]

\* lines 804-810: with the connection at hand, allocate what is missing
RequestAllocate(f) ==
    LET num == f.count - Len(f.instances)
    IN  IF num > 0
        THEN IF get_ami(AWS_AMI_IDS[f.region], f.inst_type).raised
             THEN [ f EXCEPT !.pc = "raised", !.error = "KeyError" ]
             ELSE [ f EXCEPT !.pc = "allocate",
                             !.calls = Append(@, ApiCall("run_instances", f.region,
                                           {}, num, f.inst_type, {})) ]
        ELSE RequestTag(f)

\* line 802: take the cached connection, or wait for a new one
RequestConn(f) ==
    IF f.region \in _conns THEN RequestAllocate(f)
    ELSE [ f EXCEPT !.pc = "conn",
                    !.calls = Append(@, ApiCall("connect_to_region", f.region,
                                  {}, 0, "", {})) ]

\* the frame of a call moves on; a call that returns hands out its Collection
Resume(t, f) ==
    /\ tasks' = [ tasks EXCEPT ![t] = f ]
    /\ collections' =
         IF f.op = "request_instances" /\ f.pc = "returned"
         THEN collections \cup { Collection(f) }
         ELSE IF f.op = "release_instances" /\ f.pc = "returned"
              THEN collections \ { Collection(f) }
              ELSE collections

\* line 790
KnownRegionMutAny(region) == TRUE

KnownRegion(region) == region \in AWS_REGIONS

\* the call up to its first suspension point
RequestStart(t, run_id, uuid, count, inst_type, region) ==
    /\ FreeSlot(t)
    /\ ncalls' = ncalls + 1
    /\ LET f0 == [ IdleFrame EXCEPT !.op = "request_instances", !.run_id = run_id,
                       !.uuid = uuid, !.count = count, !.inst_type = inst_type,
                       !.region = region, !.pre_instances = _instances,
                       !.pre_recovered = _recovered ]
       IN  IF ~ KnownRegion(region)
           THEN /\ Resume(t, [ f0 EXCEPT !.pc = "raised", !.error = "LoadsException" ])
                /\ UNCHANGED << _instances, _recovered >>
           ELSE LET rec == _locate_recovered_instances(_recovered, run_id, uuid)
                    remaining_count == count - Len(rec.instances)
                    ex == _locate_existing_instances(_instances, remaining_count,
                                                     inst_type, region)
                IN  /\ _recovered' = rec.recovered
                    /\ _instances' = ex.free
                    /\ Resume(t, RequestConn(
                           [ f0 EXCEPT !.recovered = rec.instances,
                                       !.existing = ex.instances,
                                       !.instances = rec.instances \o ex.instances ]))
    /\ UNCHANGED << ready, initialized, rest, probe, now, cloud, AWS_AMI_IDS, use_filters, _conns, nrestarts >>

\* conn.run_instances answered with a reservation
AllocateDone(t) ==
    /\ tasks[t].op = "request_instances" /\ tasks[t].pc = "allocate"
    /\ LET f == tasks[t]
           num == f.count - Len(f.instances)
           first == Len(cloud) + 1
           new_ids == [ k \in 1 .. num |-> Len(cloud) + k ]
       IN  /\ Len(cloud) + num <= MaxInst
           /\ cloud' = cloud \o [ k \in 1 .. num |-> NewInstance(f.inst_type, f.region) ]
           /\ Resume(t, RequestTag([ f EXCEPT !.new_instances = new_ids,
                                              !.instances = @ \o new_ids ]))
    /\ UNCHANGED << ready, initialized, rest, probe, now, AWS_AMI_IDS, use_filters, _instances, _recovered, _conns,
                    ncalls, nrestarts >>

\* conn.run_instances raised (the account's instance limit, a cloud error)
AllocateFail(t) ==
    /\ tasks[t].op = "request_instances" /\ tasks[t].pc = "allocate"
    /\ Resume(t, [ tasks[t] EXCEPT !.pc = "raised", !.error = "EC2ResponseError" ])
    /\ UNCHANGED << ready, initialized, rest, probe, now, cloud, AWS_AMI_IDS, use_filters, _instances, _recovered,
                    _conns, ncalls, nrestarts >>

\* conn.create_tags answered: request_instances returns its Collection
RequestTagDone(t) ==
    /\ tasks[t].op = "request_instances" /\ tasks[t].pc = "tag"
    /\ cloud' = create_tags(cloud, Range(tasks[t].instances),
                            RunTags(tasks[t].run_id, tasks[t].uuid))
    /\ Resume(t, [ tasks[t] EXCEPT !.pc = "returned" ])
    /\ UNCHANGED << ready, initialized, rest, probe, now, AWS_AMI_IDS, use_filters, _instances, _recovered, _conns,
                    ncalls, nrestarts >>

\* conn.create_tags raised, in request_instances or release_instances
TagFail(t) ==
    /\ tasks[t].pc = "tag"
    /\ Resume(t, [ tasks[t] EXCEPT !.pc = "raised", !.error = "EC2ResponseError" ])
    /\ UNCHANGED << ready, initialized, rest, probe, now, cloud, AWS_AMI_IDS, use_filters, _instances, _recovered,
                    _conns, ncalls, nrestarts >>

(***************************************************************************)
(* release_instances: lines 828-849.                                       *)
(***************************************************************************)
ReleaseExtendMutLost(f) == _instances

\* line 849: the members go back to the free list of the first member's region
ReleaseExtend(f) == Store(_instances, f.region, Lookup(_instances, f.region) \o f.instances)

\* lines 843-849, with the connection at hand
ReleaseTag(t, f) ==
    IF use_filters
    THEN /\ Resume(t, [ f EXCEPT !.pc = "tag",
                                 !.calls = Append(@, ApiCall("create_tags", f.region,
                                               Range(f.instances), 0, "",
                                               ReleaseTags)) ])
         /\ UNCHANGED _instances
    ELSE /\ Resume(t, [ f EXCEPT !.pc = "returned" ])
         /\ _instances' = ReleaseExtend(f)

\* a collection some frame is already releasing
BeingReleased(c) ==
    \E u \in TaskIds : /\ tasks[u].op = "release_instances"
                       /\ InFlight(u)
                       /\ Collection(tasks[u]) = c

ReleaseStart(t, c) ==
    /\ FreeSlot(t)
    /\ c \in collections /\ ~ BeingReleased(c)
    /\ ncalls' = ncalls + 1
    /\ LET f0 == [ IdleFrame EXCEPT !.op = "release_instances", !.run_id = c.run_id,
                       !.uuid = c.uuid, !.instances = c.instances,
                       !.pre_instances = _instances, !.pre_recovered = _recovered ]
       IN  IF c.instances = << >>
           THEN \* collection._instances[0]
                /\ Resume(t, [ f0 EXCEPT !.pc = "raised", !.error = "IndexError" ])
                /\ UNCHANGED _instances
           ELSE LET f == [ f0 EXCEPT !.region = cloud[c.instances[1]].region ]
                IN  IF f.region \in _conns
                    THEN ReleaseTag(t, f)
                    ELSE /\ Resume(t, [ f EXCEPT !.pc = "conn",
                                 !.calls = Append(@, ApiCall("connect_to_region",
                                               f.region, {}, 0, "", {})) ])
                         /\ UNCHANGED _instances
    /\ UNCHANGED << ready, initialized, rest, probe, now, cloud, AWS_AMI_IDS, use_filters, _recovered, _conns,
                    nrestarts >>

\* conn.create_tags answered: the members return to the pool
ReleaseTagDone(t) ==
    /\ tasks[t].op = "release_instances" /\ tasks[t].pc = "tag"
    /\ cloud' = create_tags(cloud, Range(tasks[t].instances), ReleaseTags)
    /\ _instances' = ReleaseExtend(tasks[t])
    /\ Resume(t, [ tasks[t] EXCEPT !.pc = "returned" ])
    /\ UNCHANGED << ready, initialized, rest, probe, now, AWS_AMI_IDS, use_filters, _recovered, _conns, ncalls, nrestarts >>

(***************************************************************************)
(* reap_instances: lines 851-864.                                          *)
(***************************************************************************)
\* lines 861-864: submit the region's instances for termination
ReapTerminate(f) ==
    [ f EXCEPT !.pc = "terminate",
               !.calls = Append(@, ApiCall("terminate_instances", f.region,
                             Range(f.all_instances[f.region]), 0, "", {})) ]

\* line 859: the connection of the region the loop is at
ReapConn(f) ==
    IF f.region \in _conns THEN ReapTerminate(f)
    ELSE [ f EXCEPT !.pc = "conn",
                    !.calls = Append(@, ApiCall("connect_to_region", f.region,
                                  {}, 0, "", {})) ]

\* line 858: the loop takes the next key of the dictionary, in the dictionary's order
ReapLoop(t, f) ==
    IF f.todo = {}
    THEN Resume(t, [ f EXCEPT !.pc = "returned" ])
    ELSE \E r \in f.todo :
            Resume(t, ReapConn([ f EXCEPT !.region = r, !.todo = @ \ { r } ]))

\* lines 855-858: the dictionary is swapped for an empty one and the loop starts
ReapBegin(t) ==
    /\ FreeSlot(t)
    /\ _instances' = EmptyDict
    /\ ReapLoop(t, [ IdleFrame EXCEPT !.op = "reap_instances",
                         !.all_instances = _instances, !.todo = DOMAIN _instances,
                         !.pre_instances = _instances, !.pre_recovered = _recovered ])
    /\ UNCHANGED << ready, initialized, rest, probe, now, cloud, AWS_AMI_IDS, use_filters, _recovered, _conns,
                    nrestarts >>

ReapStart(t) ==
    /\ ncalls' = ncalls + 1
    /\ ReapBegin(t)

\* conn.terminate_instances answered
TerminateDone(t) ==
    /\ tasks[t].op = "reap_instances" /\ tasks[t].pc = "terminate"
    /\ cloud' = terminate_instances(cloud,
                    Range(tasks[t].all_instances[tasks[t].region]))
    /\ ReapLoop(t, tasks[t])
    /\ UNCHANGED << ready, initialized, rest, probe, now, AWS_AMI_IDS, use_filters, _instances, _recovered, _conns,
                    ncalls, nrestarts >>

\* conn.terminate_instances raised
TerminateFail(t) ==
    /\ tasks[t].op = "reap_instances" /\ tasks[t].pc = "terminate"
    /\ Resume(t, [ tasks[t] EXCEPT !.pc = "raised", !.error = "EC2ResponseError" ])
    /\ UNCHANGED << ready, initialized, rest, probe, now, cloud, AWS_AMI_IDS, use_filters, _instances, _recovered,
                    _conns, ncalls, nrestarts >>

(***************************************************************************)
(* _region_conn: lines 666-681.                                            *)
(***************************************************************************)
\* connect_to_region answered: the connection is cached and the caller goes on
ConnDone(t) ==
    /\ tasks[t].pc = "conn"
    /\ _conns' = _conns \cup { tasks[t].region }
    /\ CASE tasks[t].op = "request_instances" ->
                /\ Resume(t, RequestAllocate(tasks[t]))
                /\ UNCHANGED _instances
         [] tasks[t].op = "release_instances" ->
                ReleaseTag(t, tasks[t])
         [] tasks[t].op = "reap_instances" ->
                /\ Resume(t, ReapTerminate(tasks[t]))
                /\ UNCHANGED _instances
    /\ UNCHANGED << ready, initialized, rest, probe, now, cloud, AWS_AMI_IDS, use_filters, _recovered, ncalls, nrestarts >>

\* connect_to_region raised
ConnFail(t) ==
    /\ tasks[t].pc = "conn"
    /\ Resume(t, [ tasks[t] EXCEPT !.pc = "raised", !.error = "EC2ResponseError" ])
    /\ UNCHANGED << ready, initialized, rest, probe, now, cloud, AWS_AMI_IDS, use_filters, _instances, _recovered,
                    _conns, ncalls, nrestarts >>

(***************************************************************************)
(* The environment: the clock, the instances booting, the broker process   *)
(* being restarted (a new EC2Pool, whose initialize() recovers).           *)
(***************************************************************************)
Tick ==
    /\ now < MaxTicks * TickSeconds
    /\ now' = now + TickSeconds
    /\ UNCHANGED << ready, initialized, rest, probe, cloud, AWS_AMI_IDS, use_filters, _instances, _recovered, _conns,
                    collections, tasks, ncalls, nrestarts >>

\* an instance comes up; the pool never refreshes the Instance objects in its
\* own lists (only a Collection's update_state and a new listing do)
Boot(i) ==
    /\ i \in DOMAIN cloud
    /\ cloud[i].state = "pending"
    /\ i \notin Held(_instances) \cup Held(_recovered)
    /\ cloud' = [ cloud EXCEPT ![i].state = "running" ]
    /\ UNCHANGED << ready, initialized, rest, probe, now, AWS_AMI_IDS, use_filters, _instances, _recovered, _conns,
                    collections, tasks, ncalls, nrestarts >>

Restart ==
    /\ nrestarts < MaxRestarts
    /\ nrestarts' = nrestarts + 1
    /\ _instances' = EmptyDict
    /\ _recovered' = EmptyDict
    /\ _conns' = {}
    /\ collections' = {}
    /\ tasks' = [ t \in TaskIds |-> IF t = 1 THEN RecoverFrame ELSE IdleFrame ]
    /\ ready' = "pending"
    /\ initialized' = "pending"
    /\ UNCHANGED << rest, probe, now, cloud, AWS_AMI_IDS, use_filters, ncalls >>

(***************************************************************************)
(* Spec: one call on the pool a broker recovers from the cloud it finds.   *)
(* The caller waits for the pool to be ready and asks for instances of run *)
(* R1, or reaps.                                                           *)
(***************************************************************************)
RequestKey == << "R1", "C1" >>

Next ==
    \/ \E t \in TaskIds :
        \/ RecoverFinish(t)
        \/ RecoverFail(t)
        \/ /\ Recovered /\ Quiescent /\ ncalls < 1
           /\ \/ \E count \in 0 .. MaxCount, inst_type \in PoolTypes,
                    region \in RegionInputs :
                      RequestStart(t, RequestKey[1], RequestKey[2], count,
                                   inst_type, region)
              \/ ReapStart(t)
        \/ AllocateDone(t)
        \/ AllocateFail(t)
        \/ RequestTagDone(t)
        \/ TagFail(t)
        \/ TerminateDone(t)
        \/ TerminateFail(t)

Spec == Init /\ [][Next]_vars

(***************************************************************************)
(* SpecLife: the life of a broker from an empty cloud on: calls made one   *)
(* after the other, the clock, instances booting, the broker restarting.   *)
(***************************************************************************)
LifeCounts == 1 .. 2

NextLife ==
    \/ \E t \in TaskIds :
        \/ RecoverFinish(t)
        \/ RecoverFail(t)
        \/ /\ Ready /\ Quiescent /\ ncalls < MaxCalls
           /\ \/ \E key \in Keys, count \in LifeCounts :
                      RequestStart(t, key[1], key[2], count, "t1.micro", "us-west-2")
              \/ \E c \in collections : ReleaseStart(t, c)
              \/ ReapStart(t)
        \/ AllocateDone(t)
        \/ AllocateFail(t)
        \/ RequestTagDone(t)
        \/ TagFail(t)
        \/ ReleaseTagDone(t)
        \/ TerminateDone(t)
        \/ TerminateFail(t)
        \/ ConnDone(t)
        \/ ConnFail(t)
    \/ Tick
    \/ \E i \in Ids : Boot(i)
    \/ Restart

SpecLife == InitLife /\ [][NextLife]_vars

(***************************************************************************)
(* SpecReuse: a broker started over the cloud an earlier process left asks *)
(* for the instances of run R1 and releases the Collection it got.         *)
(***************************************************************************)
ReuseCounts == 1 .. 2

NextReuse ==
    \E t \in TaskIds :
        \/ RecoverFinish(t)
        \/ RecoverFail(t)
        \/ /\ Quiescent
           /\ \/ /\ Recovered /\ ncalls = 0
                 /\ \E count \in ReuseCounts, inst_type \in PoolTypes,
                       region \in UsedRegions :
                          RequestStart(t, RequestKey[1], RequestKey[2], count,
                                       inst_type, region)
              \/ /\ ncalls = 1
                 /\ \E c \in collections : ReleaseStart(t, c)
        \/ AllocateDone(t)
        \/ AllocateFail(t)
        \/ RequestTagDone(t)
        \/ TagFail(t)
        \/ ReleaseTagDone(t)

SpecReuse == Init /\ [][NextReuse]_vars

(***************************************************************************)
(* SpecFn: get_ami and available_instance called directly, as the unit     *)
(* tests do, on one instance and one region's AMI table.                   *)
(***************************************************************************)
FnTypes ==
    { "m1.small", "m2.xlarge", "c1.medium", "t1.micro", "m3.medium", "c3.large",
      "t2.micro", "cc2.8xlarge", "m", "" }

FnStates == { "pending", "running", "shutting-down", "terminated", "stopping", "stopped" }

\* seconds since the launch; a negative age is a launch time ahead of the clock
FnAges == { 0 - 5, 0, 1, 119, 120, 121, 180 }

FnRegion == "ap-northeast-1"

InitFn ==
    /\ now \in { 0, 600 }
    /\ \E st \in FnStates, age \in FnAges :
          cloud = << [ state |-> st, instance_type |-> "m1.small", region |-> FnRegion,
                       launch_time |-> now - age, tags |-> NoTags ] >>
    /\ \E amis \in SUBSET VirtTypes :
          AWS_AMI_IDS = [ r \in AWS_REGIONS |-> IF r = FnRegion THEN amis ELSE {} ]
    /\ \E t \in FnTypes : probe = [ NoProbe EXCEPT !.instance_type = t ]
    /\ use_filters = FALSE
    /\ _instances = EmptyDict
    /\ _recovered = EmptyDict
    /\ _conns = {}
    /\ collections = {}
    /\ tasks = [ t \in TaskIds |-> IF t = 1 THEN RecoverFrame ELSE IdleFrame ]
    /\ ncalls = 0
    /\ nrestarts = 0
    /\ ready = "pending"
    /\ initialized = "pending"
    /\ NoRun

CallGetAmi ==
    /\ ~ probe.ami_called
    /\ probe' = [ probe EXCEPT !.ami_called = TRUE,
                               !.amis = AWS_AMI_IDS[FnRegion],
                               !.ami = get_ami(AWS_AMI_IDS[FnRegion], probe.instance_type) ]
    /\ UNCHANGED << ready, initialized, rest, now, cloud, AWS_AMI_IDS, use_filters, _instances, _recovered,
                    _conns, collections, tasks, ncalls, nrestarts >>

CallAvailableInstance ==
    /\ ~ probe.available_called
    /\ probe' = [ probe EXCEPT !.available_called = TRUE, !.available = Available(1) ]
    /\ UNCHANGED << ready, initialized, rest, now, cloud, AWS_AMI_IDS, use_filters, _instances, _recovered,
                    _conns, collections, tasks, ncalls, nrestarts >>

NextFn == CallGetAmi \/ CallAvailableInstance

SpecFn == InitFn /\ [][NextFn]_vars

(***************************************************************************)
(* EC2Pool.__init__, lines 635-641: initialize() is handed to the loop     *)
(* with a completion callback, and `ready` is a new Future.                *)
(***************************************************************************)
\* the callback __init__ attaches to initialize(): it logs x.result(), which
\* raises what initialize() raised
InitCallback ==
    /\ initialized = "pending"
    /\ \E t \in TaskIds :
          /\ tasks[t].op = "recover"
          /\ Finished(tasks[t])
          /\ initialized' = IF tasks[t].pc = "raised" THEN "failed" ELSE "logged"
    /\ UNCHANGED << ready, rest, probe, now, cloud, AWS_AMI_IDS, use_filters, _instances,
                    _recovered, _conns, collections, tasks, ncalls, nrestarts >>

\* EC2Pool._initialized(future): the one place that resolves `ready`; no
\* statement of the program calls it or attaches it to a future
_initialized ==
    /\ initialized = "pending"
    /\ Recovered
    /\ initialized' = "logged"
    /\ ready' = "resolved"
    /\ UNCHANGED << rest, probe, now, cloud, AWS_AMI_IDS, use_filters, _instances,
                    _recovered, _conns, collections, tasks, ncalls, nrestarts >>

(***************************************************************************)
(* SpecReady: a pool is constructed and the loop runs what __init__ has    *)
(* scheduled, to the end.                                                  *)
(***************************************************************************)
NextReady ==
    \/ \E t \in TaskIds : RecoverFinish(t)
    \/ \E t \in TaskIds : RecoverFail(t)
    \/ InitCallback

SpecReady == Init /\ [][NextReady]_vars /\ WF_vars(NextReady)

(***************************************************************************)
(* A Run and the RunManager that drives it.  The rows and their methods    *)
(* are db.py's (Run, RunningContainerSet, should_start, should_stop); the  *)
(* manager's _initialize, _run and _shutdown follow the design document's  *)
(* description of the state machine: the run is created, _initialize       *)
(* provisions and marks the run started, _run ticks every sleep_time over  *)
(* the running container sets in plan order, _shutdown releases and marks  *)
(* the run completed.  A tick's fan-outs finish within the tick; the clock *)
(* moves while the manager sleeps and while _initialize provisions.        *)
(***************************************************************************)
poolvars ==
    << cloud, AWS_AMI_IDS, use_filters, _instances, _recovered, _conns, collections,
       tasks, ncalls, nrestarts, probe, ready, initialized >>

\* ContainerSet.run_delay and run_max_time of the plans the model runs, in seconds
Delays == { 0, 15 }
MaxTimes == { 25, 30 }

\* seconds _initialize takes to provision the collections
ProvisionTimes == { 0, 7 }

Groups == DOMAIN sets

Started(g) == sets[g].started_at # NoTime
Completed(g) == sets[g].completed_at # NoTime

should_startMutNoDelay(cset, today) == today >= run.started_at

\* RunningContainerSet.should_start: utcnow() >= run.started_at + run_delay
should_start(cset, today) == today >= run.started_at + cset.run_delay

should_stopMutCreated(cset, today) == today >= cset.created_at + cset.run_max_time

should_stopMutNever(cset, today) == today >= cset.started_at + cset.run_max_time /\ FALSE

\* RunningContainerSet.should_stop: utcnow() >= started_at + run_max_time
should_stop(cset, today) == today >= cset.started_at + cset.run_max_time

\* Run.new_run: a Run and one RunningContainerSet per container set of the
\* strategy, in the strategy's order; the manager is created for the run
new_run ==
    /\ rm.pc = "none"
    /\ \E n \in 1 .. MaxGroups :
          \E delay \in [ 1 .. n -> Delays ], max_time \in [ 1 .. n -> MaxTimes ] :
              /\ sets' = [ g \in 1 .. n |->
                             RunningContainerSet(delay[g], max_time[g], now) ]
              /\ workload' = [ g \in 1 .. n |-> "idle" ]
    /\ run' = RunRow(now)
    /\ rm' = [ pc |-> "initialize", fatal |-> FALSE ]
    /\ UNCHANGED << poolvars, call, fan, now >>

\* _initialize: the collections are requested and set up, the run is marked
\* started and moves to RUNNING
Initialize ==
    /\ rm.pc = "initialize"
    /\ \E d \in ProvisionTimes : now' = now + d
    /\ run' = [ run EXCEPT !.started_at = now', !.state = RUNNING ]
    /\ rm' = [ rm EXCEPT !.pc = "loop" ]
    /\ UNCHANGED << poolvars, call, fan, sets, workload >>

\* _initialize raises a run-fatal error (a malformed plan, an unknown region,
\* the cloud refusing to create instances): the run never advances to RUNNING
\* and is shut down
InitializeFail ==
    /\ rm.pc = "initialize"
    /\ rm' = [ rm EXCEPT !.pc = "shutdown", !.fatal = TRUE ]
    /\ UNCHANGED << poolvars, call, fan, now, run, sets, workload >>

\* one running container set in one tick: started when it should start,
\* then stopped when it should stop, its containers no longer run or its
\* collection has no live instance left
StartSet(cset, today) ==
    IF cset.started_at = NoTime /\ should_start(cset, today)
        THEN [ cset EXCEPT !.started_at = today ]
        ELSE cset

StartWork(cset, w, today) ==
    IF cset.started_at = NoTime /\ should_start(cset, today) THEN "running" ELSE w

Stops(cset, w, today) ==
    /\ cset.started_at # NoTime
    /\ cset.completed_at = NoTime
    /\ (should_stop(cset, today) \/ w # "running")

TickSet(cset, w, today) ==
    LET started == StartSet(cset, today)
    IN  IF Stops(started, StartWork(cset, w, today), today)
            THEN [ started EXCEPT !.completed_at = today ]
            ELSE started

TickWork(cset, w, today) ==
    LET started == StartSet(cset, today)
        work == StartWork(cset, w, today)
    IN  IF Stops(started, work, today) /\ work = "running" THEN "stopped" ELSE work

\* the loop's exit test: every running container set has completed_at set
AllCompleted(rows) == \A g \in DOMAIN rows : rows[g].completed_at # NoTime

\* _run: one tick of the loop; the loop ends, and the run moves to
\* TERMINATING, when every running container set has completed_at set
RunTick ==
    /\ rm.pc = "loop"
    /\ sets' = [ g \in Groups |-> TickSet(sets[g], workload[g], now) ]
    /\ workload' = [ g \in Groups |-> TickWork(sets[g], workload[g], now) ]
    /\ LET exhausted == \E g \in Groups :
                            /\ sets[g].completed_at = NoTime
                            /\ sets'[g].completed_at # NoTime
                            /\ workload[g] = "lost"
           done == AllCompleted(sets')
       IN  /\ run' = [ run EXCEPT !.aborted = @ \/ exhausted,
                                  !.state = IF done THEN TERMINATING ELSE @ ]
           /\ rm' = [ rm EXCEPT !.pc = IF done THEN "shutdown" ELSE "sleep" ]
    /\ UNCHANGED << poolvars, call, fan, now >>

\* the loop sleeps sleep_time between two ticks
Sleep ==
    /\ rm.pc = "sleep"
    /\ now + SleepTime <= MaxRunSeconds
    /\ now' = now + SleepTime
    /\ rm' = [ rm EXCEPT !.pc = "loop" ]
    /\ UNCHANGED << poolvars, call, fan, run, sets, workload >>

\* while the manager slept, the test containers of a started set exited by
\* themselves: is_running will answer false
ContainerExit(g) ==
    /\ rm.pc = "loop"
    /\ workload[g] = "running"
    /\ workload' = [ workload EXCEPT ![g] = "exited" ]
    /\ UNCHANGED << poolvars, call, fan, now, run, sets, rm >>

\* while the manager slept, the last live instance of a started set's
\* collection stopped responding
GroupExhausted(g) ==
    /\ rm.pc = "loop"
    /\ workload[g] = "running"
    /\ workload' = [ workload EXCEPT ![g] = "lost" ]
    /\ UNCHANGED << poolvars, call, fan, now, run, sets, rm >>

\* _shutdown: the collections are released, the run is marked completed
Shutdown ==
    /\ rm.pc = "shutdown"
    /\ run' = [ run EXCEPT !.completed_at = now, !.state = COMPLETED ]
    /\ rm' = [ rm EXCEPT !.pc = "done" ]
    /\ UNCHANGED << poolvars, call, fan, now, sets, workload >>

(***************************************************************************)
(* SpecRun: one run of a plan of one or two container sets on a pool that  *)
(* is left alone.  The event loop runs the manager's coroutine whenever it *)
(* can go on: every remote call returns and every sleep ends.              *)
(***************************************************************************)
InitRun ==
    /\ now = 0
    /\ cloud = << >>
    /\ AWS_AMI_IDS = [ r \in AWS_REGIONS |-> {} ]
    /\ use_filters = FALSE
    /\ _instances = EmptyDict
    /\ _recovered = EmptyDict
    /\ _conns = {}
    /\ collections = {}
    /\ tasks = [ t \in TaskIds |-> IdleFrame ]
    /\ ncalls = 0
    /\ nrestarts = 0
    /\ probe = NoProbe
    /\ ready = "pending"
    /\ initialized = "pending"
    /\ NoRun

NextRun ==
    \/ new_run
    \/ Initialize
    \/ InitializeFail
    \/ RunTick
    \/ Sleep
    \/ \E g \in Groups : ContainerExit(g)
    \/ \E g \in Groups : GroupExhausted(g)
    \/ Shutdown

SpecRun ==
    /\ InitRun
    /\ [][NextRun]_vars
    /\ WF_vars(RunTick)
    /\ WF_vars(Sleep)
    /\ WF_vars(Shutdown)

(***************************************************************************)
(* EC2Collection's fan-outs, aws.py lines 525-556: load_container,         *)
(* run_containers and is_running call the instance's coroutine on every    *)
(* instance of the collection, in the order of the collection, and yield   *)
(* the list of futures.  Calling a coroutine starts it, so every child is  *)
(* started before the parent suspends; the yield of a list waits for every *)
(* child, then gives their results in the order of the list or raises the  *)
(* exception of the first child in the list that raised.                   *)
(***************************************************************************)
FanOps == { "load_container", "run_containers", "is_running" }

\* what an instance's coroutine returns: is_running a boolean, the others
\* nothing
ChildResults(op) == IF op = "is_running" THEN { "True", "False" } ELSE { "None" }

\* any(running)
AnyTrue(results) == \E i \in DOMAIN results : results[i] = "True"

\* the first child of the list that raised
FirstRaised(ops) ==
    CHOOSE i \in DOMAIN ops :
        /\ ops[i].state = "raised"
        /\ \A j \in 1 .. i - 1 : ops[j].state # "raised"

\* the method is called: one child per instance, all of them started
FanStart ==
    /\ fan.pc = "none"
    /\ \E op \in FanOps, n \in 1 .. MaxFan :
          fan' = [ NoFan EXCEPT !.pc = "yield", !.op = op,
                                !.ops = [ i \in 1 .. n |->
                                            [ state |-> "pending", result |-> "" ] ] ]
    /\ UNCHANGED << poolvars, call, now, run, sets, workload, rm >>

\* the operation returns on one instance
ChildReturn(i) ==
    /\ fan.pc = "yield"
    /\ fan.ops[i].state = "pending"
    /\ \E r \in ChildResults(fan.op) :
          fan' = [ fan EXCEPT !.ops[i] = [ state |-> "returned", result |-> r ] ]
    /\ UNCHANGED << poolvars, call, now, run, sets, workload, rm >>

\* the operation raises on one instance
ChildRaise(i) ==
    /\ fan.pc = "yield"
    /\ fan.ops[i].state = "pending"
    /\ fan' = [ fan EXCEPT !.ops[i] = [ state |-> "raised", result |-> "" ] ]
    /\ UNCHANGED << poolvars, call, now, run, sets, workload, rm >>

\* every child is done: the yield gives the list of results or raises, and
\* the method returns
FanDone ==
    /\ fan.pc = "yield"
    /\ \A i \in DOMAIN fan.ops : fan.ops[i].state # "pending"
    /\ IF \E i \in DOMAIN fan.ops : fan.ops[i].state = "raised"
          THEN fan' = [ fan EXCEPT !.pc = "raised",
                                   !.error = FirstRaised(fan.ops) ]
          ELSE LET results == [ i \in DOMAIN fan.ops |-> fan.ops[i].result ]
               IN  fan' = [ fan EXCEPT !.pc = "returned",
                                       !.results = results,
                                       !.value = IF fan.op = "is_running"
                                                    THEN IF AnyTrue(results)
                                                             THEN "True" ELSE "False"
                                                    ELSE "None" ]
    /\ UNCHANGED << poolvars, call, now, run, sets, workload, rm >>

(***************************************************************************)
(* SpecFan: one fan-out over a collection of one to MaxFan instances.      *)
(***************************************************************************)
NextFan ==
    \/ FanStart
    \/ \E i \in DOMAIN fan.ops : ChildReturn(i)
    \/ \E i \in DOMAIN fan.ops : ChildRaise(i)
    \/ FanDone

SpecFan == InitRun /\ [][NextFan]_vars

(***************************************************************************)
(* Ping.ping (extensions.py, lines 57-73) and EC2Instance._ping (aws.py,   *)
(* lines 350-364).  fetch() gives the response of a request that got an    *)
(* answer below 400, raises HTTPError for an answer of 400 and above, and  *)
(* raises a ConnectionError when no connection was made.  The delay is     *)
(* kept in half seconds.                                                   *)
(***************************************************************************)
callvars == << poolvars, now, run, sets, workload, rm, fan >>

PingOps == { "ping", "_ping" }

\* what a request can come to: the status of the answer, or no connection
FetchOutcomes == { "200", "404", "500", "ConnectionError" }

DefaultDelay == 1       \* delay=0.5
DefaultMaxDelay == 30   \* max_delay=15

NextDelay(delay, max_delay) == Min(delay * 2, max_delay)

\* `while attempt < attempts` of _ping, and the bare raise after the loop,
\* where no exception is being handled; ping loops `while True`
PingLoop(c) ==
    IF c.op = "_ping" /\ ~ (c.attempt < c.attempts)
        THEN [ c EXCEPT !.pc = "raised", !.error = "RuntimeError" ]
        ELSE [ c EXCEPT !.pc = "fetch" ]

PingStart ==
    /\ call.pc = "none"
    /\ \E op \in PingOps, attempts \in 1 .. MaxAttempts :
          call' = PingLoop([ op |-> op, pc |-> "start", attempts |-> attempts,
                             attempt |-> 1, delay |-> DefaultDelay,
                             fetches |-> << >>, result |-> FALSE, error |-> "" ])
    /\ UNCHANGED callvars

\* the request is answered
FetchDone ==
    /\ call.op \in PingOps
    /\ call.pc = "fetch"
    /\ \E status \in FetchOutcomes \ { "ConnectionError" } :
          LET c == [ call EXCEPT !.fetches = Append(@, status) ]
          IN  call' = IF status = "200"
                          THEN [ c EXCEPT !.pc = "returned", !.result = TRUE ]
                          ELSE [ c EXCEPT !.pc = "raised", !.error = "HTTPError" ]
    /\ UNCHANGED callvars

\* no connection: `except ConnectionError`, the timeout is awaited
FetchFail ==
    /\ call.op \in PingOps
    /\ call.pc = "fetch"
    /\ call' = [ call EXCEPT !.fetches = Append(@, "ConnectionError"),
                             !.pc = "sleep" ]
    /\ UNCHANGED callvars

\* the timeout is over: the rest of the except block
PingWake ==
    /\ call.op \in PingOps
    /\ call.pc = "sleep"
    /\ LET c == [ call EXCEPT !.attempt = @ + 1,
                              !.delay = NextDelay(@, DefaultMaxDelay) ]
       IN  call' = IF c.op = "ping" /\ c.attempt >= c.attempts
                       THEN [ c EXCEPT !.pc = "raised", !.error = "ConnectionError" ]
                       ELSE PingLoop(c)
    /\ UNCHANGED callvars

(***************************************************************************)
(* SpecPing: one ping of an endpoint, with 1 to MaxAttempts attempts.      *)
(***************************************************************************)
NextPing == PingStart \/ FetchDone \/ FetchFail \/ PingWake

SpecPing == InitRun /\ [][NextPing]_vars

(***************************************************************************)
(* retry(attempts) of util.py, lines 30-46, around a function that returns *)
(* a value or raises.                                                      *)
(***************************************************************************)
FuncResults == { "r1", "r2" }
FuncErrors == { "EC2ResponseError", "socket.timeout" }

\* `while attempt < attempts`, and the bare raise after the loop, where no
\* exception is being handled
RetryLoop(c) ==
    IF c.attempt < c.attempts
        THEN [ c EXCEPT !.pc = "func" ]
        ELSE [ c EXCEPT !.pc = "raised", !.error = "RuntimeError" ]

RetryStart ==
    /\ call.pc = "none"
    /\ \E attempts \in 1 .. MaxAttempts :
          call' = RetryLoop([ op |-> "retry", pc |-> "start", attempts |-> attempts,
                              attempt |-> 1, calls |-> << >>, result |-> "",
                              error |-> "" ])
    /\ UNCHANGED callvars

\* func returns: `return func(*args, **kw)`
FuncReturn ==
    /\ call.op = "retry"
    /\ call.pc = "func"
    /\ \E r \in FuncResults :
          call' = [ call EXCEPT !.calls = Append(@, r), !.pc = "returned",
                                !.result = r ]
    /\ UNCHANGED callvars

\* func raises: `except Exception`, the failure is logged
FuncRaise ==
    /\ call.op = "retry"
    /\ call.pc = "func"
    /\ \E e \in FuncErrors :
          call' = RetryLoop([ call EXCEPT !.calls = Append(@, e),
                                          !.attempt = @ + 1 ])
    /\ UNCHANGED callvars

(***************************************************************************)
(* SpecRetry: one call of a function wrapped by retry(attempts).           *)
(***************************************************************************)
NextRetry == RetryStart \/ FuncReturn \/ FuncRaise

SpecRetry == InitRun /\ [][NextRetry]_vars

(***************************************************************************)
(* Docker.load_containers and Docker.run_containers (extensions.py, lines  *)
(* 204-233 and 235-287): the function each of them applies to one          *)
(* instance, which calls itself with tries+1 to try again.  `image` is     *)
(* whether the instance's daemon has the image; `state` is the instance's  *)
(* state bag.                                                              *)
(***************************************************************************)
\* `if tries > 3` of load and of run
TriesLimit == 3

NoFlags == [ nonresponsive |-> FALSE ]

\* load(instance) is applied to an instance
LoadStart ==
    /\ call.pc = "none"
    /\ \E image \in BOOLEAN, latest \in BOOLEAN, url \in BOOLEAN :
          call' = [ op |-> "load", pc |-> "check", latest |-> latest, url |-> url,
                    image |-> image, tries |-> 0, calls |-> << >>,
                    value |-> "", state |-> NoFlags ]
    /\ UNCHANGED callvars

\* has_image, then `if has_container and "latest" not in container_name:
\* return`
LoadCheck ==
    /\ call.op = "load"
    /\ call.pc = "check"
    /\ LET c == [ call EXCEPT !.calls = Append(@, "has_image") ]
       IN  call' = IF c.image /\ ~ c.latest
                       THEN [ c EXCEPT !.pc = "returned", !.value = "None" ]
                       ELSE [ c EXCEPT !.pc = "pull" ]
    /\ UNCHANGED callvars

\* import_container or pull_container, which leaves the image on the
\* instance or does not
LoadPull ==
    /\ call.op = "load"
    /\ call.pc = "pull"
    /\ \E image \in { call.image, TRUE } :
          call' = [ call EXCEPT
                      !.image = image,
                      !.calls = Append(@, IF call.url THEN "import_container"
                                                      ELSE "pull_container"),
                      !.pc = "verify" ]
    /\ UNCHANGED callvars

\* has_image again: the output is returned, or False once tries > 3, or
\* load(instance, tries+1) is called
LoadVerify ==
    /\ call.op = "load"
    /\ call.pc = "verify"
    /\ LET c == [ call EXCEPT !.calls = Append(@, "has_image") ]
       IN  call' =
             IF c.image THEN [ c EXCEPT !.pc = "returned", !.value = "output" ]
             ELSE IF c.tries > TriesLimit
                 THEN [ c EXCEPT !.pc = "returned", !.value = "False" ]
                 ELSE [ c EXCEPT !.tries = @ + 1, !.pc = "check" ]
    /\ UNCHANGED callvars

\* run(instance): docker.run_container
RunStart ==
    /\ call.pc = "none"
    /\ call' = [ op |-> "run", pc |-> "run", tries |-> 0, calls |-> << >>,
                 value |-> "", error |-> "", state |-> NoFlags ]
    /\ UNCHANGED callvars

\* the container is launched: its description is returned
RunLaunched ==
    /\ call.op = "run"
    /\ call.pc = "run"
    /\ call' = [ call EXCEPT !.calls = Append(@, "run_container"),
                             !.pc = "returned", !.value = "response" ]
    /\ UNCHANGED callvars

\* run_container raises: False is returned once tries > 3, else the
\* container is stopped
RunFailed ==
    /\ call.op = "run"
    /\ call.pc = "run"
    /\ LET c == [ call EXCEPT !.calls = Append(@, "run_container") ]
       IN  call' = IF c.tries > TriesLimit
                       THEN [ c EXCEPT !.pc = "returned", !.value = "False" ]
                       ELSE [ c EXCEPT !.pc = "stop" ]
    /\ UNCHANGED callvars

\* docker.stop_container returns: run(instance, tries+1)
RunStopped ==
    /\ call.op = "run"
    /\ call.pc = "stop"
    /\ call' = [ call EXCEPT !.calls = Append(@, "stop_container"),
                             !.tries = @ + 1, !.pc = "run" ]
    /\ UNCHANGED callvars

\* docker.stop_container raises, inside the except block of run
RunStopFailed ==
    /\ call.op = "run"
    /\ call.pc = "stop"
    /\ call' = [ call EXCEPT !.calls = Append(@, "stop_container"),
                             !.pc = "raised", !.error = "APIError" ]
    /\ UNCHANGED callvars

\* the calls of one kind among the calls made
CountCalls(calls, name) == Cardinality({ k \in DOMAIN calls : calls[k] = name })

(***************************************************************************)
(* SpecTries: an image is loaded on one instance, or a container is        *)
(* launched on one instance.                                               *)
(***************************************************************************)
NextTries ==
    \/ LoadStart
    \/ LoadCheck
    \/ LoadPull
    \/ LoadVerify
    \/ RunStart
    \/ RunLaunched
    \/ RunFailed
    \/ RunStopped
    \/ RunStopFailed

SpecTries == InitRun /\ [][NextTries]_vars

(***************************************************************************)
(* Docker.wait (extensions.py, lines 144-179) over a collection whose      *)
(* instances carry a DockerDaemon with its `responded` flag.  An instance  *)
(* answers get_containers or raises, as it likes, each time it is asked;   *)
(* asking takes time when a host is slow to refuse.                        *)
(***************************************************************************)
DefaultInterval == 5    \* interval=5
DefaultTimeout == 600   \* timeout=600

WaitTimeouts == { 0, 12, DefaultTimeout }

\* seconds one round of get_containers calls takes
PollTimes == { 0, 7 }

not_responding_instancesMutAll(instances, responded) == instances

\* not_responding_instances(collection)
not_responding_instances(instances, responded) ==
    SelectSeq(instances, LAMBDA x : ~ responded[x])

\* `while not_responded and time.time() < end`, then the pruning
WaitLoop(c, today) ==
    IF c.not_responded # << >> /\ today < c.end
        THEN [ c EXCEPT !.pc = "poll" ]
        ELSE [ c EXCEPT !.pc = "prune" ]

WaitStart ==
    /\ call.pc = "none"
    /\ \E n \in 1 .. MaxFan, timeout \in WaitTimeouts :
          \E responded \in [ 1 .. n -> BOOLEAN ] :
              LET instances == [ i \in 1 .. n |-> i ]
              IN  call' = WaitLoop(
                      [ op |-> "wait", pc |-> "start", end |-> now + timeout,
                        instances |-> instances, responded |-> responded,
                        not_responded |->
                            not_responding_instances(instances, responded),
                        removed |-> << >>, ever |-> responded ], now)
    /\ UNCHANGED callvars

\* get_container is executed on every instance of not_responded; the list is
\* computed again
WaitPoll ==
    /\ call.op = "wait"
    /\ call.pc = "poll"
    /\ \E answered \in SUBSET Range(call.not_responded), d \in PollTimes :
          LET responded == [ i \in DOMAIN call.responded |->
                               call.responded[i] \/ i \in answered ]
              c == [ call EXCEPT
                       !.responded = responded,
                       !.ever = [ i \in DOMAIN @ |-> @[i] \/ i \in answered ],
                       !.not_responded =
                           not_responding_instances(call.instances, responded) ]
          IN  /\ now' = now + d
              /\ call' = IF c.not_responded # << >>
                             THEN [ c EXCEPT !.pc = "sleep" ]
                             ELSE WaitLoop(c, now')
    /\ UNCHANGED << poolvars, run, sets, workload, rm, fan >>

\* collection.wait(interval) is over
WaitSleep ==
    /\ call.op = "wait"
    /\ call.pc = "sleep"
    /\ now' = now + DefaultInterval
    /\ call' = WaitLoop(call, now')
    /\ UNCHANGED << poolvars, run, sets, workload, rm, fan >>

\* collection.remove_instances(list): the instances leave the collection
remove_instances(instances, list) ==
    SelectSeq(instances, LAMBDA x : x \notin Range(list))

WaitPrune ==
    /\ call.op = "wait"
    /\ call.pc = "prune"
    /\ call' = [ call EXCEPT
                   !.removed = call.not_responded,
                   !.instances = remove_instances(@, call.not_responded),
                   !.pc = "returned" ]
    /\ UNCHANGED callvars

(***************************************************************************)
(* SpecWait: Docker.wait on a collection of one to MaxFan instances.       *)
(***************************************************************************)
NextWait == WaitStart \/ WaitPoll \/ WaitSleep \/ WaitPrune

SpecWait == InitRun /\ [][NextWait]_vars

(***************************************************************************)
(* Docker.kill_containers and Docker.stop_containers (extensions.py, lines *)
(* 289-310): kill and stop, the functions applied to one instance, and     *)
(* collection.map, which applies a function to every instance of the       *)
(* collection that is not marked nonresponsive and gathers the results.    *)
(***************************************************************************)
StopOps == { "kill_containers", "stop_containers" }

\* what the daemon does with kill_container or stop_container
DaemonOutcomes == { "ok", "error" }

killMutNoCatch(outcome, flags) ==
    [ raised |-> outcome = "error", state |-> flags ]

\* kill(instance) and stop(instance): the daemon is called; on any exception
\* the instance's state gets nonresponsive = True; nothing is raised
kill(outcome, flags) ==
    [ raised |-> FALSE,
      state |-> IF outcome = "error" THEN [ flags EXCEPT !.nonresponsive = TRUE ]
                                     ELSE flags ]

\* collection.map(fn): fn is to be applied to the instances that are live
StopStart ==
    /\ call.pc = "none"
    /\ \E op \in StopOps, n \in 1 .. MaxFan :
          \E down \in SUBSET (1 .. n) :
              call' = [ op |-> op, pc |-> "map",
                        state |-> [ i \in 1 .. n |->
                                      [ nonresponsive |-> i \in down ] ],
                        ops |-> [ i \in 1 .. n |->
                                    IF i \in down THEN "skipped" ELSE "pending" ],
                        was_down |-> down, error |-> "" ]
    /\ UNCHANGED callvars

\* fn runs on one instance
StopApply(i) ==
    /\ call.op \in StopOps
    /\ call.pc = "map"
    /\ i \in DOMAIN call.ops
    /\ call.ops[i] = "pending"
    /\ \E outcome \in DaemonOutcomes :
          LET r == kill(outcome, call.state[i])
          IN  call' = [ call EXCEPT
                          !.state[i] = r.state,
                          !.ops[i] = IF r.raised THEN "raised" ELSE outcome ]
    /\ UNCHANGED callvars

\* fn has run on every live instance: map gives the results, an exception of
\* fn being a failure of its instance; the coroutine returns
StopDone ==
    /\ call.op \in StopOps
    /\ call.pc = "map"
    /\ \A i \in DOMAIN call.ops : call.ops[i] # "pending"
    /\ call' = [ call EXCEPT !.pc = "returned" ]
    /\ UNCHANGED callvars

(***************************************************************************)
(* SpecStop: the containers of a collection of one to MaxFan instances are *)
(* stopped or killed.                                                      *)
(***************************************************************************)
NextStop ==
    \/ StopStart
    \/ \E i \in 1 .. MaxFan : StopApply(i)
    \/ StopDone

SpecStop == InitRun /\ [][NextStop]_vars

(***************************************************************************)
(* EC2Collection.shutdown (aws.py, lines 573-584) with                     *)
(* EC2Instance.kill_container and stop_container (lines 416-427), which    *)
(* hand the daemon's call to the executer and catch nothing.  The yield of *)
(* a list of futures waits for all of them and raises the exception of the *)
(* first that raised.                                                      *)
(***************************************************************************)
\* the steps of a shutdown, in the order the code takes them: the test
\* container is killed, then Heka and cAdvisor are stopped together
ShutdownSteps == << "kill_container", "stop_heka", "stop_cadvisor" >>

Untried(n) == [ i \in 1 .. n |-> "none" ]

AllPending(n) == [ i \in 1 .. n |-> "pending" ]

\* the futures of the list being waited for are all done
Gathered(c, steps) ==
    \A s \in steps : \A i \in DOMAIN c.did[s] : c.did[s][i] # "pending"

SomeRaised(c, steps) ==
    \E s \in steps : \E i \in DOMAIN c.did[s] : c.did[s][i] = "error"

\* shutdown(): nothing when `finished` is set; else it is set and
\* kill_container is called on every instance
ShutdownStart ==
    /\ call.pc = "none"
    /\ \E n \in 1 .. MaxFan, finished \in BOOLEAN :
          call' = [ op |-> "shutdown",
                    pc |-> IF finished THEN "returned" ELSE "kill",
                    was_finished |-> finished, finished |-> TRUE,
                    did |-> [ s \in Range(ShutdownSteps) |->
                                IF s = "kill_container" /\ ~ finished
                                    THEN AllPending(n) ELSE Untried(n) ],
                    error |-> "" ]
    /\ UNCHANGED callvars

\* the daemon answers one instance's call, or fails
ShutdownChild(s, i) ==
    /\ call.op = "shutdown"
    /\ call.pc \in { "kill", "stop" }
    /\ i \in DOMAIN call.did[s]
    /\ call.did[s][i] = "pending"
    /\ \E outcome \in DaemonOutcomes :
          call' = [ call EXCEPT !.did[s][i] = outcome ]
    /\ UNCHANGED callvars

\* the kills are all done: the yield raises if one of them raised; else
\* stop_hekas() and stop_cadvisors() are called, which call stop_heka and
\* stop_cadvisor on every instance
ShutdownKilled ==
    /\ call.op = "shutdown"
    /\ call.pc = "kill"
    /\ Gathered(call, { "kill_container" })
    /\ call' = IF SomeRaised(call, { "kill_container" })
                   THEN [ call EXCEPT !.pc = "raised", !.error = "APIError" ]
                   ELSE [ call EXCEPT
                            !.pc = "stop",
                            !.did["stop_heka"] = AllPending(Len(@)),
                            !.did["stop_cadvisor"] = AllPending(Len(@)) ]
    /\ UNCHANGED callvars

\* the stops are all done: the yield raises if one of them raised
ShutdownStopped ==
    /\ call.op = "shutdown"
    /\ call.pc = "stop"
    /\ Gathered(call, { "stop_heka", "stop_cadvisor" })
    /\ call' = IF SomeRaised(call, { "stop_heka", "stop_cadvisor" })
                   THEN [ call EXCEPT !.pc = "raised", !.error = "APIError" ]
                   ELSE [ call EXCEPT !.pc = "returned" ]
    /\ UNCHANGED callvars

(***************************************************************************)
(* SpecShutdown: shutdown() of a collection of one to MaxFan instances.    *)
(***************************************************************************)
NextShutdown ==
    \/ ShutdownStart
    \/ \E s \in Range(ShutdownSteps), i \in 1 .. MaxFan : ShutdownChild(s, i)
    \/ ShutdownKilled
    \/ ShutdownStopped

SpecShutdown == InitRun /\ [][NextShutdown]_vars

(***************************************************************************)
(* The start of the side-car extensions: Heka.start (extensions.py, lines  *)
(* 335-388), DNSMasq.start (lines 401-427) and Watcher.start (lines        *)
(* 440-457), called once and then a second time on the same collection.    *)
(* uploads, launches and stops count what a start has issued on each       *)
(* instance since it was called.                                           *)
(***************************************************************************)
Extensions == { "Heka", "DNSMasq", "Watcher" }

\* Heka and Watcher are built with options, which may be None
Optional == { "Heka", "Watcher" }

NoneIssued(n) == [ i \in 1 .. n |-> 0 ]

\* run(instance) of run_containers (extensions.py, lines 255-285) from its
\* first call to its end: the launches and stops it issued and what it gave
LaunchOutcomes ==
    { [ launches |-> k + 1, stops |-> k, result |-> "ok" ] :
          k \in 0 .. TriesLimit + 1 }
    \cup { [ launches |-> TriesLimit + 2, stops |-> TriesLimit + 1,
             result |-> "False" ] }
    \cup { [ launches |-> k, stops |-> k, result |-> "raised" ] :
               k \in 1 .. TriesLimit + 1 }

\* the first statements of a start: Heka and Watcher return at once without
\* options; Heka uploads its configuration first; the others go straight to
\* run_containers
Entered(c) ==
    [ c EXCEPT
        !.pc = IF c.ext \in Optional /\ ~ c.configured THEN "returned"
               ELSE IF c.ext = "Heka" THEN "upload" ELSE "run",
        !.uploads = NoneIssued(Len(c.uploads)),
        !.launches = NoneIssued(Len(c.uploads)),
        !.stops = NoneIssued(Len(c.uploads)),
        !.result = AllPending(Len(c.uploads)),
        !.uploaded = AllPending(Len(c.uploads)),
        !.error = "" ]

\* start(collection, ...) on a collection just set up
ExtStart ==
    /\ call.pc = "none"
    /\ \E ext \in Extensions, configured \in BOOLEAN, n \in 1 .. MaxFan :
          call' = Entered([ op |-> "start", ext |-> ext,
                            configured |-> configured, round |-> 1,
                            pc |-> "none", running |-> FALSE,
                            uploads |-> NoneIssued(n),
                            launches |-> NoneIssued(n),
                            stops |-> NoneIssued(n),
                            result |-> AllPending(n),
                            uploaded |-> AllPending(n),
                            dns_server |-> NoneIssued(n),
                            first_dns |-> NoneIssued(n),
                            error |-> "" ])
    /\ UNCHANGED callvars

\* upload_files(inst): the configuration is rendered and uploaded over SSH
\* (SSH.upload_file, lines 97-107), whatever is on the instance already
ExtUpload(i) ==
    /\ call.op = "start"
    /\ call.pc = "upload"
    /\ i \in DOMAIN call.uploaded
    /\ call.uploaded[i] = "pending"
    /\ \E outcome \in DaemonOutcomes :
          call' = [ call EXCEPT !.uploads[i] = @ + 1,
                                !.uploaded[i] = outcome ]
    /\ UNCHANGED callvars

\* the map of upload_files is over: docker.run_containers is called
ExtUploaded ==
    /\ call.op = "start"
    /\ call.pc = "upload"
    /\ \A i \in DOMAIN call.uploaded : call.uploaded[i] # "pending"
    /\ call' = [ call EXCEPT !.pc = "run" ]
    /\ UNCHANGED callvars

\* run(instance) of run_containers on one instance
ExtRun(i) ==
    /\ call.op = "start"
    /\ call.pc = "run"
    /\ i \in DOMAIN call.result
    /\ call.result[i] = "pending"
    /\ \E o \in LaunchOutcomes :
          call' = [ call EXCEPT !.launches[i] = o.launches,
                                !.stops[i] = o.stops,
                                !.result[i] = o.result ]
    /\ UNCHANGED callvars

\* the instances DNSMasq.start gives a dns_server before it ends: those in
\* front of the first one that has none and whose response is no inspection
DnsUpTo(c) ==
    LET bad == { i \in DOMAIN c.result :
                     c.dns_server[i] = 0 /\ c.result[i] # "ok" }
    IN  IF bad = {} THEN Len(c.result)
        ELSE (CHOOSE i \in bad : \A j \in bad : i <= j) - 1

\* run_containers is over.  DNSMasq.start sets state.dns_server from the
\* response on every instance that has none yet, and raises on a response
\* that cannot be subscripted; Heka.start maps ping_heka; Watcher.start
\* returns
ExtReturn ==
    /\ call.op = "start"
    /\ call.pc = "run"
    /\ \A i \in DOMAIN call.result : call.result[i] # "pending"
    /\ call' =
          IF call.ext = "DNSMasq"
              THEN [ call EXCEPT
                       !.dns_server =
                           [ i \in DOMAIN @ |->
                               IF i <= DnsUpTo(call) /\ @[i] = 0
                                   THEN call.round ELSE @[i] ],
                       !.pc = IF DnsUpTo(call) = Len(call.result)
                                  THEN "returned" ELSE "raised",
                       !.error = IF DnsUpTo(call) = Len(call.result)
                                     THEN "" ELSE "TypeError" ]
              ELSE [ call EXCEPT !.pc = "returned" ]
    /\ UNCHANGED callvars

\* start is called a second time; the side-car is running where the first
\* start launched it
ExtAgain ==
    /\ call.op = "start"
    /\ call.pc = "returned"
    /\ call.round = 1
    /\ call' = Entered([ call EXCEPT
                           !.round = 2,
                           !.running =
                               /\ call.ext \in Optional => call.configured
                               /\ \A i \in DOMAIN call.result :
                                      call.result[i] = "ok",
                           !.first_dns = call.dns_server ])
    /\ UNCHANGED callvars

(***************************************************************************)
(* SpecStart: an extension is started twice on a collection of one to      *)
(* MaxFan instances.                                                       *)
(***************************************************************************)
NextStart ==
    \/ ExtStart
    \/ \E i \in 1 .. MaxFan : ExtUpload(i)
    \/ ExtUploaded
    \/ \E i \in 1 .. MaxFan : ExtRun(i)
    \/ ExtReturn
    \/ ExtAgain

SpecStart == InitRun /\ [][NextStart]_vars

(***************************************************************************)
(* EC2Instance.update_state, wait_for_state and wait_for_docker (aws.py,   *)
(* lines 203-280).  The clock is `now`; it moves while a call to the cloud *)
(* or to the daemon is under way and while the coroutine sleeps.           *)
(***************************************************************************)
WaitOps == { "wait_for_state", "wait_for_docker" }

InstanceStates == { "pending", "running", "terminated" }

\* update_state tries self._retries times, a second apart
_retries == 5

ExpiredMutEarly(today, end) == today >= end

\* `time.time() > end`
Expired(today, end) == today > end

\* the end of wait_for_state: wait_for_docker goes on to ask the daemon
Reached(c) ==
    IF c.op = "wait_for_docker" THEN [ c EXCEPT !.pc = "get_containers" ]
                                ELSE [ c EXCEPT !.pc = "returned" ]

\* `while self.state != state`, with the deadline test that opens its body
StateLoop(c, today) ==
    IF c.state = c.target THEN Reached(c)
    ELSE IF Expired(today, c.end)
        THEN [ c EXCEPT !.pc = "raised", !.error = "TimeoutException" ]
        ELSE [ c EXCEPT !.pc = "update" ]

\* wait_for_state(state, timeout=...) and wait_for_docker(timeout=...), which
\* takes its own deadline and calls wait_for_state("running")
StateWaitStart ==
    /\ call.pc = "none"
    /\ \E op \in WaitOps, target \in InstanceStates, state \in InstanceStates,
          timeout \in WaitTimeouts :
          /\ op = "wait_for_docker" => target = "running"
          /\ LET c == [ op |-> op, pc |-> "start", target |-> target,
                        state |-> state, entry |-> state, started |-> now,
                        end |-> now + (IF op = "wait_for_docker"
                                           THEN DefaultTimeout ELSE timeout),
                        docker_end |-> now + timeout,
                        polled |-> FALSE, updated_at |-> now,
                        tried |-> FALSE, answered |-> FALSE, error |-> "" ]
             IN  call' = IF state = target THEN Reached(c)
                                           ELSE StateLoop(c, now)
    /\ UNCHANGED callvars

\* update_state(): the state is read from the cloud, again after a second
\* for each failure and at most _retries times; then `if self.state != state`
\* the coroutine sleeps for the interval
StateUpdate ==
    /\ call.op \in WaitOps
    /\ call.pc = "update"
    /\ \E fails \in 0 .. _retries, d \in PollTimes, s \in InstanceStates :
          LET c == [ call EXCEPT
                       !.state = IF fails < _retries THEN s ELSE @,
                       !.polled = TRUE,
                       !.updated_at = now + fails + d ]
          IN  /\ now' = now + fails + d
              /\ call' = IF c.state # c.target
                             THEN [ c EXCEPT !.pc = "sleep" ]
                             ELSE StateLoop(c, now')
    /\ UNCHANGED << poolvars, run, sets, workload, rm, fan >>

\* the sleep of wait_for_state is over
StateSleep ==
    /\ call.op \in WaitOps
    /\ call.pc = "sleep"
    /\ now' = now + DefaultInterval
    /\ call' = StateLoop(call, now')
    /\ UNCHANGED << poolvars, run, sets, workload, rm, fan >>

\* get_containers is submitted to the daemon: its answer ends
\* wait_for_docker, an exception sends it to sleep
DockerTry ==
    /\ call.op = "wait_for_docker"
    /\ call.pc = "get_containers"
    /\ \E outcome \in DaemonOutcomes, d \in PollTimes :
          /\ now' = now + d
          /\ call' = [ call EXCEPT
                         !.tried = TRUE,
                         !.answered = outcome = "ok",
                         !.pc = IF outcome = "ok" THEN "returned"
                                                  ELSE "docker_sleep" ]
    /\ UNCHANGED << poolvars, run, sets, workload, rm, fan >>

\* the sleep of wait_for_docker is over; then the deadline is tested
DockerSleep ==
    /\ call.op = "wait_for_docker"
    /\ call.pc = "docker_sleep"
    /\ now' = now + DefaultInterval
    /\ call' = IF Expired(now', call.docker_end)
                   THEN [ call EXCEPT !.pc = "raised",
                                      !.error = "TimeoutException" ]
                   ELSE [ call EXCEPT !.pc = "get_containers" ]
    /\ UNCHANGED << poolvars, run, sets, workload, rm, fan >>

(***************************************************************************)
(* SpecState: one wait_for_state or wait_for_docker on an instance.        *)
(***************************************************************************)
NextState ==
    \/ StateWaitStart
    \/ StateUpdate
    \/ StateSleep
    \/ DockerTry
    \/ DockerSleep

SpecState == InitRun /\ [][NextState]_vars

(***************************************************************************)
(* Docker.is_running (extensions.py, lines 181-202): has_container is      *)
(* executed on every instance of collection.running_instances() and the    *)
(* answers are gathered.                                                   *)
(***************************************************************************)
\* what get_containers gives on an instance: containers one of which has
\* the name in its image, containers none of which has it, or an exception
ContainerListings == { "has", "has not", "error" }

\* running_instances(): the instances not marked nonresponsive whose cloud
\* state is running
running_instances(cloud_state, flags) ==
    { i \in DOMAIN flags :
          cloud_state[i] = "running" /\ ~ flags[i].nonresponsive }

has_containerMutPrune(listing, prune, flags) ==
    [ result |-> listing = "has",
      state |-> IF listing = "error"
                    THEN [ flags EXCEPT !.nonresponsive = TRUE ] ELSE flags ]

\* has_container(instance)
has_container(listing, prune, flags) ==
    [ result |-> listing = "has" \/ (listing = "error" /\ ~ prune),
      state |-> IF listing = "error" /\ prune
                    THEN [ flags EXCEPT !.nonresponsive = TRUE ] ELSE flags ]

\* is_running(collection, container_name, prune)
IsRunningStart ==
    /\ call.pc = "none"
    /\ \E n \in 1 .. MaxFan, prune \in BOOLEAN :
          \E down \in SUBSET (1 .. n), stopped \in SUBSET (1 .. n) :
              LET flags == [ i \in 1 .. n |-> [ nonresponsive |-> i \in down ] ]
                  cloud_state == [ i \in 1 .. n |->
                                     IF i \in stopped THEN "stopped"
                                                      ELSE "running" ]
              IN  call' = [ op |-> "is_running", pc |-> "gather",
                            prune |-> prune, state |-> flags,
                            before |-> flags, cloud_state |-> cloud_state,
                            listing |-> [ i \in 1 .. n |->
                                IF i \in running_instances(cloud_state, flags)
                                    THEN "pending" ELSE "skipped" ],
                            results |-> [ i \in 1 .. n |-> FALSE ],
                            value |-> FALSE ]
    /\ UNCHANGED callvars

\* has_container runs on one of the instances
IsRunningChild(i) ==
    /\ call.op = "is_running"
    /\ call.pc = "gather"
    /\ i \in DOMAIN call.listing
    /\ call.listing[i] = "pending"
    /\ \E listing \in ContainerListings :
          LET r == has_container(listing, call.prune, call.state[i])
          IN  call' = [ call EXCEPT !.listing[i] = listing,
                                    !.results[i] = r.result,
                                    !.state[i] = r.state ]
    /\ UNCHANGED callvars

\* every future of the list is done: `return any(results)`
IsRunningDone ==
    /\ call.op = "is_running"
    /\ call.pc = "gather"
    /\ \A i \in DOMAIN call.listing : call.listing[i] # "pending"
    /\ call' = [ call EXCEPT
                   !.pc = "returned",
                   !.value = \E i \in DOMAIN call.listing :
                                 call.listing[i] # "skipped" /\ call.results[i] ]
    /\ UNCHANGED callvars

(***************************************************************************)
(* SpecRunning: is_running on a collection of one to MaxFan instances.     *)
(***************************************************************************)
NextRunning ==
    \/ IsRunningStart
    \/ \E i \in 1 .. MaxFan : IsRunningChild(i)
    \/ IsRunningDone

SpecRunning == InitRun /\ [][NextRunning]_vars

(***************************************************************************)
(* EC2Collection.start (aws.py, lines 558-571) with start_hekas (467-491), *)
(* start_cadvisors (498-510), run_containers (539-543), the instance's     *)
(* start_heka (329-343) and start_cadvisor (283-307), and shutdown         *)
(* (573-584), called several times on one collection; a start may be       *)
(* called while an earlier one is suspended.                               *)
(***************************************************************************)
MaxStarts == 2      \* calls of start, and of shutdown, on one collection

\* the frame of a start that found `started` set
StartedFrame == [ pc |-> "returned", launching |-> FALSE ]

startMutNoGuard(c) ==
    [ c EXCEPT
        !.started = TRUE,
        !.frames = Append(@, [ pc |-> "sidecars", launching |-> TRUE ]),
        !.heka = [ i \in DOMAIN @ |-> IF c.heka_options THEN "pending" ELSE @[i] ],
        !.cadvisor = [ i \in DOMAIN @ |->
                         IF c.influx_options THEN "pending" ELSE @[i] ] ]

\* start() up to its first yield: nothing when `started` is set; else it is
\* set, and start_hekas and start_cadvisors are called, each of which
\* returns at once without its options and else starts its side-car on
\* every instance
start(c) ==
    IF c.started
        THEN [ c EXCEPT !.frames = Append(@, StartedFrame) ]
        ELSE [ c EXCEPT
                 !.started = TRUE,
                 !.frames = Append(@, [ pc |-> "sidecars", launching |-> TRUE ]),
                 !.heka = [ i \in DOMAIN @ |->
                              IF c.heka_options THEN "pending" ELSE @[i] ],
                 !.cadvisor = [ i \in DOMAIN @ |->
                                  IF c.influx_options THEN "pending" ELSE @[i] ] ]

\* a collection of instances, as EC2Pool.request_instances builds it
CollCreate ==
    /\ call.pc = "none"
    /\ \E n \in 1 .. MaxFan, heka_options \in BOOLEAN, influx_options \in BOOLEAN :
          call' = [ op |-> "collection", pc |-> "live",
                    heka_options |-> heka_options,
                    influx_options |-> influx_options,
                    started |-> FALSE, finished |-> FALSE,
                    frames |-> << >>, shutdowns |-> 0,
                    heka |-> Untried(n), cadvisor |-> Untried(n),
                    test |-> Untried(n),
                    launches |-> [ k \in { "heka", "cadvisor", "test" } |->
                                     NoneIssued(n) ],
                    kills |-> NoneIssued(n), stops |-> NoneIssued(n) ]
    /\ UNCHANGED callvars

CollStart ==
    /\ call.op = "collection"
    /\ Len(call.frames) < MaxStarts
    /\ call' = start(call)
    /\ UNCHANGED callvars

\* start_heka(config_file) on one instance: the upload, run_container and
\* the ping of the health URL; any of them may raise
HekaStep(i) ==
    /\ call.op = "collection"
    /\ i \in DOMAIN call.heka
    /\ call.heka[i] = "pending"
    /\ \E outcome \in { "upload failed", "run failed", "ping failed", "ok" } :
          call' = [ call EXCEPT
                      !.heka[i] = IF outcome = "ok" THEN "ok" ELSE "error",
                      !.launches["heka"][i] =
                          IF outcome = "upload failed" THEN @ ELSE @ + 1 ]
    /\ UNCHANGED callvars

\* start_cadvisor(database_name, options) on one instance: run_container and
\* the ping of the health URL
CadvisorStep(i) ==
    /\ call.op = "collection"
    /\ i \in DOMAIN call.cadvisor
    /\ call.cadvisor[i] = "pending"
    /\ \E outcome \in { "run failed", "ping failed", "ok" } :
          call' = [ call EXCEPT
                      !.cadvisor[i] = IF outcome = "ok" THEN "ok" ELSE "error",
                      !.launches["cadvisor"][i] = @ + 1 ]
    /\ UNCHANGED callvars

\* `yield [self.start_hekas(), self.start_cadvisors()]` is over: it raises
\* if a side-car raised; else run_containers calls run_container on every
\* instance
SidecarsDone(k) ==
    /\ call.op = "collection"
    /\ k \in DOMAIN call.frames
    /\ call.frames[k].pc = "sidecars"
    /\ \A i \in DOMAIN call.heka :
          call.heka[i] # "pending" /\ call.cadvisor[i] # "pending"
    /\ call' =
          IF \E i \in DOMAIN call.heka :
                 call.heka[i] = "error" \/ call.cadvisor[i] = "error"
              THEN [ call EXCEPT !.frames[k].pc = "raised" ]
              ELSE [ call EXCEPT !.frames[k].pc = "test",
                                 !.test = AllPending(Len(@)) ]
    /\ UNCHANGED callvars

\* run_container of the test container on one instance
TestStep(i) ==
    /\ call.op = "collection"
    /\ i \in DOMAIN call.test
    /\ call.test[i] = "pending"
    /\ \E outcome \in DaemonOutcomes :
          call' = [ call EXCEPT !.test[i] = outcome,
                                !.launches["test"][i] = @ + 1 ]
    /\ UNCHANGED callvars

\* `yield self.run_containers(...)` is over
TestDone(k) ==
    /\ call.op = "collection"
    /\ k \in DOMAIN call.frames
    /\ call.frames[k].pc = "test"
    /\ \A i \in DOMAIN call.test : call.test[i] # "pending"
    /\ call' = [ call EXCEPT
                   !.frames[k].pc =
                       IF \E i \in DOMAIN call.test : call.test[i] = "error"
                           THEN "raised" ELSE "returned" ]
    /\ UNCHANGED callvars

\* shutdown(), from its call to its end: nothing when `finished` is set;
\* else it is set, kill_container is called on every instance and, unless a
\* kill raised, stop_heka and stop_cadvisor are
CollShutdown ==
    /\ call.op = "collection"
    /\ call.shutdowns < MaxStarts
    /\ \E kill_raised \in BOOLEAN :
          call' = IF call.finished
                      THEN [ call EXCEPT !.shutdowns = @ + 1 ]
                      ELSE [ call EXCEPT
                               !.shutdowns = @ + 1,
                               !.finished = TRUE,
                               !.kills = [ i \in DOMAIN @ |-> @[i] + 1 ],
                               !.stops = [ i \in DOMAIN @ |->
                                             IF kill_raised THEN @[i]
                                                            ELSE @[i] + 2 ] ]
    /\ UNCHANGED callvars

(***************************************************************************)
(* SpecCollection: starts and shutdowns of one collection of one to        *)
(* MaxFan instances.                                                       *)
(***************************************************************************)
NextCollection ==
    \/ CollCreate
    \/ CollStart
    \/ \E i \in 1 .. MaxFan : HekaStep(i)
    \/ \E i \in 1 .. MaxFan : CadvisorStep(i)
    \/ \E k \in 1 .. MaxStarts : SidecarsDone(k)
    \/ \E i \in 1 .. MaxFan : TestStep(i)
    \/ \E k \in 1 .. MaxStarts : TestDone(k)
    \/ CollShutdown

SpecCollection == InitRun /\ [][NextCollection]_vars

(***************************************************************************)
(* SpecLocate: _locate_existing_instances (aws.py, lines 743-762) called   *)
(* directly on the pool that recover() built over the cloud an earlier     *)
(* process left, with any count from -1 on (request_instances passes       *)
(* count - len(recovered), which is negative when the bucket holds more    *)
(* than was asked for).                                                    *)
(***************************************************************************)
LocateCounts == (0 - 1) .. MaxCount

MaxLocates == 2     \* direct calls made one after the other

LocateCall ==
    /\ Recovered
    /\ ncalls < MaxLocates
    /\ ncalls' = ncalls + 1
    /\ \E count \in LocateCounts, inst_type \in PoolTypes, region \in UsedRegions :
          LET ex == _locate_existing_instances(_instances, count, inst_type, region)
          IN  /\ _instances' = ex.free
              /\ call' = [ op |-> "_locate_existing_instances", pc |-> "returned",
                           count |-> count, inst_type |-> inst_type,
                           region |-> region, before |-> _instances,
                           instances |-> ex.instances ]
    /\ UNCHANGED << now, cloud, AWS_AMI_IDS, use_filters, _recovered, _conns,
                    collections, tasks, nrestarts, probe, ready, initialized,
                    run, sets, workload, rm, fan >>

NextLocate ==
    \/ \E t \in TaskIds : RecoverFinish(t)
    \/ \E t \in TaskIds : RecoverFail(t)
    \/ LocateCall

SpecLocate == Init /\ [][NextLocate]_vars

(***************************************************************************)
(* SpecConc: calls on the pool that overlap.  The broker starts over a     *)
(* cloud of running t1.micro instances in us-west-2, some tagged for run   *)
(* R1 and some released; once initialize() is over, request_instances,     *)
(* release_instances and reap_instances are called whenever a frame is     *)
(* free, and every suspended call goes on when its cloud call answers.     *)
(***************************************************************************)
ConcInstances ==
    { [ state |-> "running", instance_type |-> "t1.micro", region |-> "us-west-2",
        launch_time |-> 0 - 3 * 60, tags |-> tg ] :
        tg \in { TagsOf("R1", "C1"), TagsOf("", "") } }

ConcClouds == UNION { [ 1 .. n -> ConcInstances ] : n \in 0 .. MaxPre }

InitConc ==
    /\ now = 0
    /\ cloud \in ConcClouds
    /\ NewPool
    /\ probe = NoProbe
    /\ NoRun

NextConc ==
    \E t \in TaskIds :
        \/ RecoverFinish(t)
        \/ RecoverFail(t)
        \/ /\ Ready /\ ncalls < MaxCalls
           /\ \/ \E key \in Keys, count \in ReuseCounts :
                      RequestStart(t, key[1], key[2], count, "t1.micro", "us-west-2")
              \/ \E c \in collections : ReleaseStart(t, c)
              \/ ReapStart(t)
        \/ AllocateDone(t)
        \/ AllocateFail(t)
        \/ RequestTagDone(t)
        \/ TagFail(t)
        \/ ReleaseTagDone(t)
        \/ TerminateDone(t)
        \/ TerminateFail(t)
        \/ ConnDone(t)
        \/ ConnFail(t)

SpecConc == InitConc /\ [][NextConc]_vars

(***************************************************************************)
(* SpecReap: a broker whose callers never ask for run R1 again.  The       *)
(* instances an earlier process tagged for R1 are in the recovery bucket   *)
(* (R1, C1); run R2 asks for one instance at a time and releases it, and   *)
(* reap_instances is called again and again, for ever.  Every call that    *)
(* can be made or can go on eventually is.                                 *)
(***************************************************************************)
OtherKey == << "R2", "C2" >>

NextReap ==
    \E t \in TaskIds :
        \/ RecoverFinish(t)
        \/ RecoverFail(t)
        \/ /\ Ready /\ ncalls < MaxCalls
           /\ \/ RequestStart(t, OtherKey[1], OtherKey[2], 1,
                              "t1.micro", "us-west-2")
              \/ \E c \in collections : ReleaseStart(t, c)
        \/ /\ Ready
           /\ ReapBegin(t)
           /\ UNCHANGED ncalls
        \/ AllocateDone(t)
        \/ AllocateFail(t)
        \/ RequestTagDone(t)
        \/ TagFail(t)
        \/ ReleaseTagDone(t)
        \/ TerminateDone(t)
        \/ TerminateFail(t)
        \/ ConnDone(t)
        \/ ConnFail(t)

SpecReap == InitConc /\ [][NextReap]_vars /\ WF_vars(NextReap)

(***************************************************************************)
(* The claims.                                                             *)
(***************************************************************************)
Max(a, b) == IF a < b THEN b ELSE a

\* the frames of request_instances calls that got past the region check
Requests ==
    { tasks[t] : t \in { u \in TaskIds : /\ tasks[u].op = "request_instances"
                                         /\ tasks[u].error # "LoadsException" } }

\* the frames of request_instances calls that returned a Collection
ReturnedRequests == { f \in Requests : f.pc = "returned" }

\* the calls of one API a frame issued
CallsOf(f, api) == { k \in DOMAIN f.calls : f.calls[k].api = api }

\* the recovery bucket and the region's free list as the call found them
BucketBefore(f) == Lookup(f.pre_recovered, << f.run_id, f.uuid >>)

FreeBefore(f) == Lookup(f.pre_instances, f.region)

\* C1 -- recovery completeness: a request_instances(R, U, count, ...) that
\* returns hands out every instance recover() had put in the bucket (R, U),
\* leaves no bucket (R, U) behind, and has asked the cloud for exactly the
\* instances still missing after the bucket and the free list: one
\* run_instances call for count - (bucket + taken) of them, or none.
C1_RecoveryCompleteness ==
    \A f \in ReturnedRequests :
        LET missing == Max(0, f.count - Len(BucketBefore(f)) - Len(f.existing))
        IN  /\ Range(BucketBefore(f)) \subseteq Range(f.instances)
            /\ Collection(f) \in collections
            /\ << f.run_id, f.uuid >> \notin DOMAIN _recovered
            /\ Len(f.new_instances) = missing
            /\ Len(f.instances) = Len(BucketBefore(f)) + Len(f.existing) + missing
            /\ Cardinality(CallsOf(f, "run_instances")) = (IF missing > 0 THEN 1 ELSE 0)
            /\ \A k \in CallsOf(f, "run_instances") :
                    f.calls[k].min_count = missing /\ f.calls[k].max_count = missing

\* the bucket held two instances, three were asked for, the free list was empty:
\* the two come back with exactly one new instance
C1_Witness ==
    \E f \in ReturnedRequests :
        /\ Len(BucketBefore(f)) = 2
        /\ f.count = 3
        /\ FreeBefore(f) = << >>
        /\ Len(f.new_instances) = 1
        /\ f.instances = BucketBefore(f) \o f.new_instances
        /\ \A i \in Range(BucketBefore(f)) : i \in Range(f.recovered)

\* C2 -- request_instances takes from the region's free list at most the
\* shortfall (count minus the recovered instances) and the Collection it returns
\* holds at most count instances.
C2_AtMostShortfall ==
    /\ \A f \in Requests :
          Len(f.existing) <= Max(0, f.count - Len(f.recovered))
    /\ \A f \in ReturnedRequests : Len(f.instances) <= f.count


\* how often instance i occurs in the lists of a dictionary
RECURSIVE OccurrencesIn(_, _, _)
OccurrencesIn(d, ks, i) ==
    IF ks = {} THEN 0
    ELSE LET k == CHOOSE x \in ks : TRUE
         IN  Occurrences(d[k], i) + OccurrencesIn(d, ks \ { k }, i)

\* how often instance i occurs in the live Collections
RECURSIVE OccurrencesInCollections(_, _)
OccurrencesInCollections(cs, i) ==
    IF cs = {} THEN 0
    ELSE LET c == CHOOSE x \in cs : TRUE
         IN  Occurrences(c.instances, i) + OccurrencesInCollections(cs \ { c }, i)

InFreeList(i) == OccurrencesIn(_instances, DOMAIN _instances, i)

InBucket(i) == OccurrencesIn(_recovered, DOMAIN _recovered, i)

InCollection(i) == OccurrencesInCollections(collections, i)

\* the instances the pool knows: in a free list, a bucket or a live Collection
Known ==
    Held(_instances) \cup Held(_recovered)
        \cup UNION { Range(c.instances) : c \in collections }

\* C3 -- ownership: whenever every call made so far has run to completion,
\* each instance the pool knows is in exactly one place, once: a free list
\* (that of one region), a recovery bucket, or a live Collection.
C3_Ownership ==
    Quiescent =>
        \A i \in Known : InFreeList(i) + InBucket(i) + InCollection(i) = 1

\* after a restart and three calls, one instance sits in a free list and
\* another in a live Collection or a bucket
C3_Witness ==
    /\ Quiescent
    /\ ncalls = MaxCalls
    /\ nrestarts > 0
    /\ \E i, j \in Known :
          /\ i # j
          /\ InFreeList(i) = 1
          /\ InBucket(j) + InCollection(j) = 1


HasRunId(i) == Truthy(cloud[i].tags.RunId)

HasUuid(i) == Truthy(cloud[i].tags.Uuid)

C5_RecoverRouting ==
    \A t \in TaskIds :
        (tasks[t].op = "recover" /\ tasks[t].pc = "returned" /\ ncalls = 0) =>
            \A i \in Range(tasks[t].instances) :
                LET free == Occurrences(Lookup(_instances, cloud[i].region), i)
                    bucket == Occurrences(Lookup(_recovered, InstKey(i)), i)
                    tagged == /\ cloud[i].tags.RunId \notin { NoTag, "" }
                              /\ cloud[i].tags.Uuid \notin { NoTag, "" }
                    usable == \/ cloud[i].state = "running"
                              \/ /\ cloud[i].state = "pending"
                                 /\ now - cloud[i].launch_time < 120
                IN  /\ InFreeList(i) + InBucket(i) + InCollection(i) = 1
                    /\ (~ usable) => free = 1
                    /\ (usable /\ tagged) => bucket = 1
                    /\ (usable /\ ~ tagged) => free = 1
                    /\ (cloud[i].state = "pending" /\ now - cloud[i].launch_time = 180)
                          => free = 1

\* a tagged pending instance launched three minutes ago is in its region's free
\* list while a tagged running one is in its bucket
C5_Witness ==
    \E t \in TaskIds :
        /\ tasks[t].op = "recover" /\ tasks[t].pc = "returned" /\ ncalls = 0
        /\ \E i, j \in Range(tasks[t].instances) :
              /\ cloud[i].state = "pending" /\ now - cloud[i].launch_time = 180
              /\ HasRunId(i) /\ HasUuid(i)
              /\ i \in Range(Lookup(_instances, cloud[i].region))
              /\ cloud[j].state = "running" /\ HasRunId(j) /\ HasUuid(j)
              /\ j \in Range(Lookup(_recovered, InstKey(j)))


\* C6 -- available_instance is true for a running instance; for a pending one
\* it is true iff now - launch_time is strictly less than 120 seconds; for every
\* other state it is false.
C6_AvailableInstance ==
    probe.available_called =>
        LET state == cloud[1].state
            age == now - cloud[1].launch_time
        IN  /\ state = "running" => probe.available
            /\ state = "pending" => (probe.available <=> age < 120)
            /\ state \notin { "running", "pending" } => ~ probe.available

\* a pending instance launched exactly 120 seconds ago is not available
C6_Witness ==
    /\ probe.available_called
    /\ cloud[1].state = "pending"
    /\ now - cloud[1].launch_time = 120
    /\ ~ probe.available

\* C7 -- get_ami selects the paravirtual AMI iff the first two characters of the
\* instance type are m1, m2, c1 or t1 and the hvm AMI otherwise; when the region
\* has no AMI of the selected variant it raises, and never returns the other one.
C7_GetAmi ==
    probe.ami_called =>
        LET selected == IF TypePrefix(probe.instance_type) \in { "m1", "m2", "c1", "t1" }
                        THEN "paravirtual"
                        ELSE "hvm"
        IN  /\ selected \in probe.amis
                => (~ probe.ami.raised /\ probe.ami.variant = selected)
            /\ selected \notin probe.amis => probe.ami.raised

\* t1.micro in a region that has only the hvm AMI: get_ami raises
C7_Witness ==
    /\ probe.ami_called
    /\ probe.instance_type = "t1.micro"
    /\ probe.amis = { "hvm" }
    /\ probe.ami.raised

\* C8 -- from the region's free list request_instances takes only instances of
\* the requested type for which available_instance is true; every other instance
\* of that list is still in the region's free list afterwards, none is dropped or
\* doubled, and the instances a returned call was still missing are new ones of
\* the requested type in the requested region.
C8_Frame ==
    /\ \A f \in Requests :
          LET before == FreeBefore(f)
              after == Lookup(_instances, f.region)
          IN  /\ \A i \in Range(f.existing) :
                    /\ i \in Range(before)
                    /\ cloud[i].instance_type = f.inst_type
                    /\ Available(i)
              /\ \A i \in Range(before) :
                    /\ (cloud[i].instance_type # f.inst_type \/ ~ Available(i))
                          => Occurrences(after, i) = 1
                    /\ Occurrences(f.existing, i) + Occurrences(after, i) = 1
              /\ Range(after) \subseteq Range(before)
    /\ \A f \in ReturnedRequests :
          /\ Len(f.new_instances) =
                Max(0, f.count - Len(f.recovered) - Len(f.existing))
          /\ \A i \in Range(f.new_instances) :
                /\ i \notin Held(f.pre_instances) \cup Held(f.pre_recovered)
                /\ Occurrences(f.instances, i) = 1
                /\ cloud[i].instance_type = f.inst_type
                /\ cloud[i].region = f.region

\* the free list holds one m3.medium; a request for one t1.micro creates one and
\* leaves the m3.medium in the list
C8_Witness ==
    \E f \in ReturnedRequests :
        /\ f.count = 1 /\ f.inst_type = "t1.micro"
        /\ BucketBefore(f) = << >>
        /\ Len(FreeBefore(f)) = 1
        /\ cloud[FreeBefore(f)[1]].instance_type = "m3.medium"
        /\ Available(FreeBefore(f)[1])
        /\ Lookup(_instances, f.region) = FreeBefore(f)
        /\ f.existing = << >>
        /\ Len(f.new_instances) = 1
        /\ cloud[f.new_instances[1]].instance_type = "t1.micro"

C10_UnknownRegion ==
    \A t \in TaskIds :
        (tasks[t].op = "request_instances" /\ tasks[t].region \notin AWS_REGIONS) =>
            /\ tasks[t].pc = "raised"
            /\ tasks[t].error = "LoadsException"
            /\ tasks[t].calls = << >>
            /\ tasks[t].instances = << >>
            /\ _instances = tasks[t].pre_instances
            /\ _recovered = tasks[t].pre_recovered
            /\ collections = {}

\* the call for the unknown region found a free list and a bucket (R1, C1)
C10_Witness ==
    \E t \in TaskIds :
        /\ tasks[t].op = "request_instances" /\ tasks[t].region = "mars-1"
        /\ tasks[t].pc = "raised"
        /\ tasks[t].run_id = "R1" /\ tasks[t].count > 0
        /\ Lookup(_recovered, << "R1", "C1" >>) # << >>
        /\ Held(_instances) # {}


\* the frames of release_instances calls that have completed
Released ==
    { tasks[t] : t \in { u \in TaskIds : /\ tasks[u].op = "release_instances"
                                         /\ tasks[u].pc = "returned" } }

\* C11 -- after release_instances(collection) completes, every member of the
\* collection is in the free list of its own region and, on a pool that tags
\* (filters enabled), has RunId and Uuid set to the empty string.
C11_ReleaseOwnRegion ==
    \A f \in Released :
        \A i \in Range(f.instances) :
            /\ use_filters => (cloud[i].tags.RunId = "" /\ cloud[i].tags.Uuid = "")
            /\ Occurrences(Lookup(_instances, cloud[i].region), i) = 1


\* the frames of reap_instances calls
Reaps == { tasks[t] : t \in { u \in TaskIds : tasks[u].op = "reap_instances" } }

\* C12 -- reap_instances empties the whole free-list map before it first
\* suspends, asks each region to terminate exactly the instances that were in
\* that region's free list, does not raise a termination error to its caller,
\* and puts no swapped-out instance back.
C12_ReapSwallowsErrors ==
    \A f \in Reaps :
        /\ f.all_instances = f.pre_instances
        /\ Held(_instances) \cap Held(f.all_instances) = {}
        /\ \A k \in CallsOf(f, "terminate_instances") :
              /\ f.calls[k].region \in DOMAIN f.all_instances
              /\ f.calls[k].ids = Range(f.all_instances[f.calls[k].region])
        /\ f.pc # "raised"
        /\ f.pc = "returned" =>
              \A r \in DOMAIN f.all_instances :
                  \E k \in CallsOf(f, "terminate_instances") : f.calls[k].region = r


\* C13 -- every Collection request_instances(run, uuid, count, type, region)
\* returns holds only instances of the requested type in the requested region,
\* those taken from the recovery bucket (run, uuid) included.
C13_Homogeneous ==
    \A f \in ReturnedRequests :
        \A i \in Range(f.instances) :
            /\ cloud[i].instance_type = f.inst_type
            /\ cloud[i].region = f.region


C17_ShouldStop ==
    /\ \A g \in Groups :
          Completed(g) =>
              /\ Started(g)
              /\ sets[g].completed_at <=
                    sets[g].started_at + sets[g].run_max_time + SleepTime
              /\ workload[g] = "stopped" =>
                    sets[g].completed_at >= sets[g].started_at + sets[g].run_max_time
    /\ rm.pc = "sleep" =>
          \A g \in Groups :
              Started(g) =>
                  (Completed(g) <=>
                      \/ now >= sets[g].started_at + sets[g].run_max_time
                      \/ workload[g] # "running")

C17_Witness ==
    /\ rm.pc = "sleep"
    /\ \E g, h \in Groups :
          /\ Completed(g)
          /\ workload[g] = "stopped"
          /\ sets[g].completed_at > sets[g].started_at + sets[g].run_max_time
          /\ Started(h)
          /\ ~ Completed(h)


\* a Run that was started (_initialize succeeded, started_at is set) and is
\* COMPLETED has completed_at set on every one of its running container sets
StartedRunCompletedGroups ==
    (run.state = COMPLETED /\ run.started_at # NoTime) =>
        \A g \in Groups : Completed(g)

\* C18 -- in every reachable state, a Run whose state is COMPLETED has
\* completed_at set on every one of its running container sets.
C18_CompletedGroups ==
    run.state = COMPLETED => \A g \in Groups : Completed(g)

C15_ReadyResolves == Recovered ~> (ready = "resolved")


\* a fan-out that is over has run the operation on every instance
FanRanAll ==
    fan.pc \in { "returned", "raised" } =>
        \A i \in DOMAIN fan.ops : fan.ops[i].state # "pending"

\* C20 -- when an operation is applied over the instances of a collection, an
\* exception raised for one instance does not prevent the operation from
\* running on the other instances, and the fan-out returns one result per
\* instance, in the order of the instances.
C20_FanOutIsolation ==
    /\ FanRanAll
    /\ fan.pc # "raised"
    /\ fan.pc = "returned" =>
          /\ Len(fan.results) = Len(fan.ops)
          /\ \A i \in DOMAIN fan.ops :
                fan.ops[i].state = "returned" => fan.results[i] = fan.ops[i].result


\* the requests of the ping so far all failed to connect
OnlyConnectionErrors ==
    \A k \in DOMAIN call.fetches : call.fetches[k] = "ConnectionError"

\* C21 -- ping(url, attempts=n) issues a new request after each connection
\* failure and fails only after n consecutive connection failures, raising a
\* ping error; with fewer than n consecutive failures followed by a success
\* it returns true.
C21_PingAttempts ==
    call.op \in PingOps =>
        /\ (call.pc = "raised" /\ OnlyConnectionErrors) =>
              /\ Len(call.fetches) = call.attempts
              /\ call.error = "PingError"
        /\ (call.pc = "sleep" /\ Len(call.fetches) < call.attempts) => ENABLED PingWake
        /\ (call.fetches # << >> /\ call.fetches[Len(call.fetches)] = "200") =>
              (call.pc = "returned" /\ call.result)

\* C22 -- a ping whose request reaches the endpoint but gets an HTTP status of
\* 400 or more counts as success: ping returns true, without another request
\* and without raising.
C22_HttpErrorIsSuccess ==
    (call.op \in PingOps /\ call.fetches # << >>
        /\ call.fetches[Len(call.fetches)] \in { "404", "500" }) =>
            (call.pc = "returned" /\ call.result)


\* C23 -- a function wrapped by retry(attempts=n) is called again after each
\* failure until it succeeds, up to n calls in total; the first successful
\* result is returned, and after the n-th failure the function's error is
\* raised to the caller.
C23_RetryCalls ==
    call.op = "retry" =>
        /\ Len(call.calls) <= call.attempts
        /\ \A k \in 1 .. Len(call.calls) - 1 : call.calls[k] \in FuncErrors
        /\ call.pc = "returned" =>
              /\ call.calls[Len(call.calls)] \in FuncResults
              /\ call.result = call.calls[Len(call.calls)]
        /\ call.pc = "raised" =>
              /\ Len(call.calls) = call.attempts
              /\ call.error = call.calls[call.attempts]


\* the imports and pulls, and the launches, among the calls made
Loads(calls) == CountCalls(calls, "import_container") + CountCalls(calls, "pull_container")
Launches(calls) == CountCalls(calls, "run_container")

\* C24 -- load_containers verifies after each import or pull that the image
\* is present; while it is absent it retries the load at most 3 times per
\* instance, and after the last failed retry it gives up and the instance is
\* marked failed.
C24_LoadRetries ==
    call.op = "load" =>
        /\ \A k \in 1 .. Len(call.calls) - 1 :
              call.calls[k] \in { "import_container", "pull_container" } =>
                  call.calls[k + 1] = "has_image"
        /\ Loads(call.calls) <= 1 + TriesLimit
        /\ call.value = "False" =>
              /\ Loads(call.calls) = 1 + TriesLimit
              /\ ~ call.image
              /\ call.state.nonresponsive

\* C25 -- run_containers retries a failing container launch at most 3 times
\* per instance, issues a stop of that container between every two
\* consecutive tries, and after the last failed try gives up for that
\* instance without raising.
C25_RunRetries ==
    call.op = "run" =>
        /\ Launches(call.calls) <= 1 + TriesLimit
        /\ \A k \in 1 .. Len(call.calls) - 1 :
              call.calls[k] = "run_container" => call.calls[k + 1] = "stop_container"
        /\ call.value = "False" => Launches(call.calls) = 1 + TriesLimit
        /\ call.pc = "raised" => call.calls[Len(call.calls)] # "run_container"


\* C26 -- Docker.wait returns once every instance has responded or the
\* deadline has passed; on return every instance that never responded has
\* been handed to remove_instances, every instance still in the collection
\* has responded = true, and an instance that responded is never pruned.
C26_WaitPrunes ==
    call.op = "wait" =>
        /\ call.pc = "returned" =>
              /\ \/ \A i \in DOMAIN call.responded : call.responded[i]
                 \/ now >= call.end
              /\ \A i \in DOMAIN call.ever :
                    IF call.ever[i]
                        THEN i \in Range(call.instances) /\ i \notin Range(call.removed)
                        ELSE i \in Range(call.removed) /\ i \notin Range(call.instances)
              /\ \A i \in Range(call.instances) : call.responded[i]
        /\ call.pc \in { "poll", "sleep" } =>
              /\ \E i \in DOMAIN call.responded : ~ call.responded[i]
              /\ call.removed = << >>
              /\ Len(call.instances) = Len(call.responded)
        /\ call.pc = "poll" => now < call.end

C26_Witness ==
    /\ call.op = "wait"
    /\ call.pc = "returned"
    /\ call.end = DefaultTimeout
    /\ now >= call.end
    /\ Len(call.responded) = 3
    /\ Len(call.instances) = 2
    /\ Len(call.removed) = 1


\* C27 -- stop_containers and kill_containers are best effort: a daemon
\* failure on one instance never raises out of the operation; that instance
\* gets nonresponsive = true and the stop or kill is still applied to the
\* other instances.
C27_BestEffortStop ==
    call.op \in StopOps =>
        /\ call.pc # "raised"
        /\ \A i \in DOMAIN call.ops :
              /\ call.ops[i] # "raised"
              /\ call.ops[i] = "error" => call.state[i].nonresponsive
              /\ call.ops[i] = "ok" => ~ call.state[i].nonresponsive
              /\ call.pc = "returned" =>
                    call.ops[i] \in IF i \in call.was_down THEN { "skipped" }
                                                           ELSE DaemonOutcomes

C27_Witness ==
    /\ call.op \in StopOps
    /\ call.pc = "returned"
    /\ call.was_down = {}
    /\ \E i, j \in DOMAIN call.ops :
          /\ i < j
          /\ call.ops[i] = "error"
          /\ call.state[i].nonresponsive
          /\ call.ops[j] = "ok"


\* C28 -- tear-down errors are swallowed: if killing the test container or
\* stopping Heka or cAdvisor fails on some instance, the collection's
\* shutdown still attempts the remaining stop steps on all instances and
\* completes without raising.
C28_ShutdownSwallows ==
    call.op = "shutdown" =>
        /\ call.pc # "raised"
        /\ (call.pc = "returned" /\ ~ call.was_finished) =>
              \A s \in Range(ShutdownSteps) :
                  \A i \in DOMAIN call.did[s] : call.did[s][i] \in DaemonOutcomes


\* the second start of an extension whose side-car is still running on every
\* instance
SecondStart ==
    /\ call.op = "start"
    /\ call.round = 2
    /\ call.running

\* what does hold of a second start: no instance's dns_server changes
DnsServerKept == SecondStart => call.dns_server = call.first_dns

\* C29 -- extension start is idempotent: a second start (DNSMasq, Heka,
\* Watcher) on a collection whose side-car is still running issues no further
\* upload or container run and changes no instance state.
C29_StartIdempotent ==
    SecondStart =>
        /\ \A i \in DOMAIN call.result :
              /\ call.uploads[i] = 0
              /\ call.launches[i] = 0
              /\ call.stops[i] = 0
        /\ call.dns_server = call.first_dns


\* C30 -- wait_for_state(target) returns at once when the instance is already
\* in the target state; otherwise it polls the state every interval seconds
\* and raises the timeout error once the deadline has passed without
\* reaching it; it never returns normally while the state differs from the
\* target; wait_for_docker raises the same timeout error when the daemon has
\* not answered by its deadline.
C30_WaitForState ==
    call.op \in WaitOps =>
        /\ call.entry = call.target =>
              /\ ~ call.polled
              /\ call.op = "wait_for_state" =>
                    call.pc = "returned" /\ now = call.started
        /\ call.pc = "update" =>
              /\ call.state # call.target
              /\ now <= call.end
              /\ call.polled => now = call.updated_at + DefaultInterval
        /\ call.pc = "sleep" => call.state # call.target
        /\ call.pc \in { "returned", "get_containers", "docker_sleep" } =>
              call.state = call.target
        /\ (call.pc = "returned" /\ call.op = "wait_for_docker") =>
              call.answered
        /\ (call.pc = "get_containers" /\ call.tried) =>
              now <= call.docker_end
        /\ call.pc = "raised" =>
              /\ call.error = "TimeoutException"
              /\ now > call.docker_end
              /\ call.op = "wait_for_state" =>
                    call.state # call.target /\ now > call.end
              /\ call.tried => call.state = call.target /\ ~ call.answered

C30_Witness ==
    /\ call.op = "wait_for_state"
    /\ call.pc = "raised"
    /\ call.end = call.started + DefaultTimeout
    /\ call.polled


\* C31 -- Docker.is_running queries only the collection's running_instances
\* and returns true iff at least one of them reports a container whose image
\* contains the name; an instance whose daemon call fails is, with prune,
\* marked nonresponsive and counted as not running, and without prune
\* counted as running and left unmarked.
C31_IsRunning ==
    call.op = "is_running" =>
        /\ \A i \in DOMAIN call.listing :
              /\ (call.before[i].nonresponsive
                      \/ call.cloud_state[i] # "running") =>
                    call.listing[i] = "skipped" /\ call.state[i] = call.before[i]
              /\ call.listing[i] \in { "has", "has not" } =>
                    call.state[i] = call.before[i]
              /\ call.listing[i] = "error" =>
                    call.state[i].nonresponsive = call.prune
        /\ call.pc = "returned" =>
              /\ \A i \in DOMAIN call.listing :
                    call.listing[i] = "skipped" <=>
                        (call.before[i].nonresponsive
                             \/ call.cloud_state[i] # "running")
              /\ call.value <=>
                    \E i \in DOMAIN call.listing :
                        \/ call.listing[i] = "has"
                        \/ call.listing[i] = "error" /\ ~ call.prune

C31_Witness ==
    /\ call.op = "is_running"
    /\ call.pc = "returned"
    /\ ~ call.prune
    /\ call.value
    /\ \E i, j \in DOMAIN call.listing :
          /\ call.listing[i] = "error"
          /\ call.listing[j] = "skipped"
    /\ \A i \in DOMAIN call.listing : call.listing[i] # "has"


FirstStartLaunched ==
    call.op = "collection" =>
        \A k \in DOMAIN call.frames :
            (call.frames[k].pc = "returned" /\ call.frames[k].launching) =>
                \A i \in DOMAIN call.test : call.test[i] = "ok"

\* C38 -- whenever a call to EC2Collection.start returns normally, the test
\* container has been launched on every instance of the collection, also for
\* a call that overlaps an earlier start still in progress and for a call
\* made after an earlier start failed while launching Heka or cAdvisor.
C38_StartReturnsLaunched ==
    call.op = "collection" =>
        \A k \in DOMAIN call.frames :
            call.frames[k].pc = "returned" =>
                \A i \in DOMAIN call.test : call.test[i] = "ok"


\* C33 -- _locate_existing_instances neither drops nor duplicates instances:
\* every instance in the region's free list before the call is afterwards
\* either in the returned list or in that free list, exactly once, and the
\* free lists of other regions are unchanged.
C33_LocateKeepsAll ==
    call.op = "_locate_existing_instances" =>
        LET before == Lookup(call.before, call.region)
            after == Lookup(_instances, call.region)
        IN  /\ \A i \in Range(before) :
                  Occurrences(call.instances, i) + Occurrences(after, i) = 1
            /\ Range(call.instances) \cup Range(after) \subseteq Range(before)
            /\ Len(call.instances) + Len(after) = Len(before)
            /\ \A r \in (DOMAIN call.before \cup DOMAIN _instances) \ { call.region } :
                  Lookup(_instances, r) = Lookup(call.before, r)

\* two instances in the region's free list, the first of them taken and the
\* loop left before the second was looked at; another region has a free list
C33_Witness ==
    /\ call.op = "_locate_existing_instances"
    /\ call.count = 0
    /\ Len(Lookup(call.before, call.region)) = 2
    /\ call.instances = << Lookup(call.before, call.region)[1] >>
    /\ Lookup(_instances, call.region) = << Lookup(call.before, call.region)[2] >>


\* the request_instances calls that are suspended
SuspendedRequests ==
    { t \in TaskIds : tasks[t].op = "request_instances" /\ InFlight(t) }

\* how many of the suspended request_instances calls hold instance i
InRequest(i) ==
    Cardinality({ t \in SuspendedRequests : i \in Range(tasks[t].instances) })

\* C34 -- two request_instances calls interleaved at their suspension points
\* never receive the same instance: the Collections handed out are pairwise
\* disjoint, whether the instance came from a recovery bucket or from a free
\* list.
C34_DisjointRequests ==
    /\ \A i \in DOMAIN cloud : InRequest(i) + InCollection(i) <= 1
    /\ \A t \in SuspendedRequests :
          /\ \A i \in Range(tasks[t].instances) :
                /\ Occurrences(tasks[t].instances, i) = 1
                /\ InFreeList(i) + InBucket(i) = 0

\* two calls suspended at once, one holding an instance of the recovery
\* bucket, the other an instance of the free list
C34_Witness ==
    \E t, u \in SuspendedRequests :
        /\ t # u
        /\ tasks[t].recovered # << >>
        /\ tasks[u].existing # << >>


\* a reap_instances call in frame t and a release_instances call in frame u
\* that overlapped: the released instances were not in the free pool when the
\* reap started
ReapMeetsRelease(t, u) ==
    /\ t # u
    /\ tasks[t].op = "reap_instances"
    /\ tasks[u].op = "release_instances"
    /\ tasks[u].instances # << >>
    /\ Range(tasks[u].instances) \cap Held(tasks[t].pre_instances) = {}

\* C35 -- an instance returned by release_instances while a reap_instances
\* call is suspended on a cloud call is not terminated by that reap and is in
\* the free pool when both calls have finished: a reap terminates only
\* instances that were in the free pool at the moment it started.
C35_ReleaseDuringReap ==
    /\ \A t \in TaskIds :
          tasks[t].op = "reap_instances" =>
              \A k \in CallsOf(tasks[t], "terminate_instances") :
                  tasks[t].calls[k].ids \subseteq Held(tasks[t].pre_instances)
    /\ \A t, u \in TaskIds :
          ReapMeetsRelease(t, u) =>
              /\ \A k \in CallsOf(tasks[t], "terminate_instances") :
                    tasks[t].calls[k].ids \cap Range(tasks[u].instances) = {}
              /\ (Finished(tasks[t]) /\ tasks[u].pc = "returned") =>
                    \A i \in Range(tasks[u].instances) : InFreeList(i) = 1

\* a reap that terminated an instance and a release that overlapped it have
\* both returned
C35_Witness ==
    \E t, u \in TaskIds :
        /\ ReapMeetsRelease(t, u)
        /\ tasks[t].pc = "returned"
        /\ tasks[u].pc = "returned"
        /\ \E k \in CallsOf(tasks[t], "terminate_instances") :
              tasks[t].calls[k].ids # {}
        /\ \A i \in Range(tasks[u].instances) :
              InFreeList(i) = 1 /\ cloud[i].state # "terminated"


\* C36 -- a termination failure in one region does not stop reap_instances
\* from issuing termination for the remaining regions: every instance removed
\* from the free pool by a reap gets a terminate call issued for it.
C36_ReapReachesAll ==
    \A f \in Reaps :
        Finished(f) =>
            \A i \in Held(f.all_instances) :
                \E k \in CallsOf(f, "terminate_instances") : i \in f.calls[k].ids

\* what does hold: a reap that returns has issued a terminate call for every
\* instance it removed
ReturnedReapReachesAll ==
    \A f \in Reaps :
        f.pc = "returned" =>
            \A i \in Held(f.all_instances) :
                \E k \in CallsOf(f, "terminate_instances") : i \in f.calls[k].ids

\* the instances a request_instances call took from the recovery bucket and
\* the free list
Taken(f) == Range(f.recovered) \cup Range(f.existing)

\* C37 -- if creating instances (a missing AMI included) or tagging fails
\* inside request_instances, the instances it had already taken from the
\* recovery bucket and the free list are still tracked by the pool afterwards
\* (in a bucket or a free list), so a later request or reap can reach them.
C37_FailedRequestKeeps ==
    \A f \in Requests :
        f.pc = "raised" =>
            \A i \in Taken(f) : InFreeList(i) + InBucket(i) = 1


\* instance i is within reach of reaping or reaped: it is in a free list or
\* terminated
Reapable(i) ==
    /\ i \in DOMAIN cloud
    /\ InFreeList(i) > 0 \/ cloud[i].state = "terminated"

\* C39 -- no instance held by the pool stays for ever out of reach of
\* reaping: an instance that recover() put in a recovery bucket whose
\* (RunId, Uuid) is never requested again is eventually moved to a free list
\* or terminated by a reap_instances call.
C39_BucketsReaped ==
    \A i \in Ids : (i \in Held(_recovered)) ~> Reapable(i)

\* what does hold: nothing but a request for its key takes an instance out
\* of its recovery bucket
BucketsStay ==
    [][ \A i \in Ids : i \in Held(_recovered) => i \in Held(_recovered') ]_vars

====
